---- MODULE Spec2Model ----
(***************************************************************************)
(* A model of the row-reconciliation and type-validation engine of         *)
(* eoir_foia (core/csv.py: CsvValidator) and of the loading loop that      *)
(* consumes it (core/clean.py: copy_csv_to_table).                         *)
(*                                                                         *)
(* A cell is a sequence of one-character strings, so that the string       *)
(* operations of the code (strip, replace, in, slicing, int(),             *)
(* fromisoformat) are computed character by character.                     *)
(***************************************************************************)
EXTENDS Integers, Sequences, FiniteSets, TLC

(***************************************************************************)
(* Bounds of the model.                                                    *)
(***************************************************************************)
\* Number of physical lines after the header that a streamed file holds.
MaxLines == 2

\* Number of times the caller runs the null-stripping pass on one file.
MaxPrepassRuns == 2

(***************************************************************************)
(* Characters and Python's string primitives.                              *)
(***************************************************************************)
DigitChars == <<"0", "1", "2", "3", "4", "5", "6", "7", "8", "9">>

IsDigit(c) == \E k \in 1..10 : DigitChars[k] = c

DigitVal(c) == (CHOOSE k \in 1..10 : DigitChars[k] = c) - 1

\* str.isspace() looks at every character; the blank is the one whitespace
\* character of the modelled alphabet (a tab never survives the tab split).
IsSpaceChar(c) == c = " "

\* s.replace(a, "") for a one-character a
RemoveChar(s, a) == SelectSeq(s, LAMBDA c : c # a)

\* s.replace(a, b) for one-character a and b
ReplaceChar(s, a, b) == [k \in 1..Len(s) |-> IF s[k] = a THEN b ELSE s[k]]

\* s[:n] and s[n:], which clamp n to the length of s
Take(s, n) == SubSeq(s, 1, IF n < Len(s) THEN n ELSE Len(s))

Drop(s, n) == SubSeq(s, (IF n < Len(s) THEN n ELSE Len(s)) + 1, Len(s))

\* a in s
Contains(s, a) == \E k \in 1..Len(s) : s[k] = a

\* s.strip(chars) for a set chars of characters
Strip(s, chars) ==
    LET keep == {k \in 1..Len(s) : s[k] \notin chars}
    IN  IF keep = {} THEN <<>>
        ELSE LET lo == CHOOSE k \in keep : \A j \in keep : k <= j
                 hi == CHOOSE k \in keep : \A j \in keep : k >= j
             IN  SubSeq(s, lo, hi)

\* the whitespace str.strip() removes
SpaceChars == {" "}

\* value.strip("\\").strip()
StripValue(s) == Strip(Strip(s, {"\\"}), SpaceChars)

\* the number written by a sequence of digits
RECURSIVE NumVal(_)
NumVal(s) == IF Len(s) = 0 THEN 0
             ELSE 10 * NumVal(SubSeq(s, 1, Len(s) - 1)) + DigitVal(s[Len(s)])

AllDigits(s) == \A k \in 1..Len(s) : IsDigit(s[k])

\* The null sentinel r"\N".
NullSentinel == <<"\\", "N">>

(***************************************************************************)
(* CsvValidator.is_nul_like                                                *)
(***************************************************************************)
NulTokens == { <<>>, <<"b", "6">>, <<"N", "/", "A">>, <<"A", ".", "2", ".", "a">> }

\* A null-like test that knows the tokens and blanks but not the fillers.
is_nul_like_NoFiller(value) ==
    \/ value \in NulTokens
    \/ \A k \in 1..Len(value) : IsSpaceChar(value[k])

is_nul_like(value) ==
    IF value \in NulTokens THEN TRUE
    ELSE IF \A k \in 1..Len(value) : IsSpaceChar(value[k]) THEN TRUE
    ELSE IF value[1] = "?" /\ \A k \in 1..Len(value) : value[k] = "?" THEN TRUE
    ELSE IF value[1] = "0" /\ \A k \in 1..Len(value) : value[k] = "0" THEN TRUE
    ELSE FALSE

(***************************************************************************)
(* int(), datetime.fromisoformat and time.fromisoformat: which strings     *)
(* parse.                                                                  *)
(***************************************************************************)
\* int(s): optional blanks around, an optional sign, then digits in which
\* single underscores may separate digits.
ParsesAsInt(s) ==
    LET t == Strip(s, SpaceChars)
        u == IF Len(t) > 0 /\ t[1] \in {"+", "-"} THEN SubSeq(t, 2, Len(t)) ELSE t
    IN  /\ Len(u) > 0
        /\ IsDigit(u[1])
        /\ IsDigit(u[Len(u)])
        /\ \A k \in 1..Len(u) : IsDigit(u[k]) \/ u[k] = "_"
        /\ \A k \in 1..(Len(u) - 1) : ~(u[k] = "_" /\ u[k + 1] = "_")

IsLeap(y) == (y % 4 = 0 /\ y % 100 # 0) \/ y % 400 = 0

DaysInMonth(y, m) ==
    IF m = 2 THEN (IF IsLeap(y) THEN 29 ELSE 28)
    ELSE IF m \in {4, 6, 9, 11} THEN 30 ELSE 31

\* The extended ISO 8601 date YYYY-MM-DD.
IsIsoDate(s) ==
    /\ Len(s) = 10
    /\ s[5] = "-" /\ s[8] = "-"
    /\ AllDigits(SubSeq(s, 1, 4)) /\ AllDigits(SubSeq(s, 6, 7)) /\ AllDigits(SubSeq(s, 9, 10))
    /\ LET y == NumVal(SubSeq(s, 1, 4))
           m == NumVal(SubSeq(s, 6, 7))
           d == NumVal(SubSeq(s, 9, 10))
       IN  y >= 1 /\ m \in 1..12 /\ d >= 1 /\ d <= DaysInMonth(y, m)

\* The extended ISO 8601 times HH:MM and HH:MM:SS that time.fromisoformat
\* accepts among the strings that carry a colon at the third position.
IsIsoTime(s) ==
    /\ Len(s) \in {5, 8}
    /\ s[3] = ":"
    /\ AllDigits(SubSeq(s, 1, 2)) /\ AllDigits(SubSeq(s, 4, 5))
    /\ NumVal(SubSeq(s, 1, 2)) < 24
    /\ NumVal(SubSeq(s, 4, 5)) < 60
    /\ Len(s) = 8 => /\ s[6] = ":"
                     /\ AllDigits(SubSeq(s, 7, 8))
                     /\ NumVal(SubSeq(s, 7, 8)) < 60

\* datetime.fromisoformat: a date, or a date, one separator character and a
\* time.
IsIsoDateTime(s) ==
    \/ IsIsoDate(s)
    \/ /\ Len(s) > 11
       /\ IsIsoDate(SubSeq(s, 1, 10))
       /\ IsIsoTime(SubSeq(s, 12, Len(s)))

(***************************************************************************)
(* CsvValidator.convert_integer / convert_timestamp / convert_time         *)
(***************************************************************************)
\* An integer check without the replacement of the letter O.
convert_integer_NoSubstitution(value) ==
    IF ParsesAsInt(value) THEN value ELSE NullSentinel

convert_integer(value) ==
    LET v == ReplaceChar(value, "O", "0")
    IN  IF ParsesAsInt(v) THEN v ELSE NullSentinel

convert_timestamp(value) ==
    IF IsIsoDateTime(value) THEN value ELSE NullSentinel

convert_time(value) ==
    LET v == IF Len(value) = 4 /\ Contains(value, ":")
             THEN RemoveChar(<<"0">> \o value, ":")
             ELSE value
        probe == Take(v, 2) \o <<":">> \o Drop(v, 2)
    IN  IF IsIsoTime(probe) THEN v ELSE NullSentinel

(***************************************************************************)
(* The cells a file may hold.  SmallCells are the cells of a streamed file;*)
(* RichCells add one cell for each way a value can be null-like, parse,    *)
(* fail to parse, or carry characters the cleaning touches.                *)
(***************************************************************************)
SmallCells == { <<>>, <<"7">> }

RichCells ==
    { <<>>,
      <<"b", "6">>,
      <<"N", "/", "A">>,
      <<"A", ".", "2", ".", "a">>,
      <<" ">>,
      <<"?", "?">>,
      <<"0", "0">>,
      <<"0">>,
      <<"7">>,
      <<"O", "4", "2">>,
      <<"a", "b", "c">>,
      <<"\\", "N">>,
      <<"\\">>,
      <<" ", "4", "2">>,
      <<"2", "0", "2", "0", "-", "0", "1", "-", "0", "1">>,
      <<"2", "0", "2", "0", "-", "0", "1", "-", "0", "1", " ", "1", "0", ":", "0", "0", ":", "0", "0">>,
      <<"n", "o", "t", "a", "d", "a", "t", "e">>,
      <<"0", "9", "3", "0">>,
      <<"9", ":", "3", "0">>,
      <<"0", "9", ":", "3", "0">>,
      <<"1", "2", ":", "3">>,
      <<"2", "4", "6", "0">>,
      <<"a", "|", "b">>,
      <<" ", "x", " ">>,
      <<"\\", "x">>,
      <<"O", "K">> }

(***************************************************************************)
(* FILE_SPECIFIC_RULES and the per-file configuration of a validator.      *)
(***************************************************************************)
FileNames == {"tbl_Court_Motions.csv", "tblProBono.csv", "A_TblCase.csv", "tbl_schedule.csv"}

\* FILE_SPECIFIC_RULES.get(name, {}) read through .get(key, default)
FILE_SPECIFIC_RULES(file) ==
    CASE file = "tbl_Court_Motions.csv" ->
            [auto_truncate |-> TRUE, expected_extra_cols |-> 2, high_nul_tolerance |-> FALSE,
             skip_validation_cols |-> {"REJ", "DATE_TO_BIA", "DECISION_RENDERED",
                                       "DATE_MAILED_TO_IJ", "DATE_RECD_FROM_BIA",
                                       "STRDJSCENARIO", "E_28_RECPTFLAG"}]
      [] file = "tblProBono.csv" ->
            [auto_truncate |-> FALSE, expected_extra_cols |-> 0, high_nul_tolerance |-> TRUE,
             skip_validation_cols |-> {"WD_DEC", "strA1", "strA2", "strA3", "strPossibility",
                                       "strIntrprLang", "blnProcessed", "other_comp",
                                       "DEC_212C", "recd_212C", "blnOARequestedbyINS",
                                       "Other_dec2", "Charge_5", "blnOARequestedbyAlien",
                                       "DEC_245", "recd_245", "Charge_4", "blnIntrpr",
                                       "Charge_6", "WD_recd", "blnOARequestedbyAmicus"}]
      [] file = "A_TblCase.csv" ->
            [auto_truncate |-> FALSE, expected_extra_cols |-> 0, high_nul_tolerance |-> FALSE,
             skip_validation_cols |-> {"UP_BOND_DATE", "UP_BOND_RSN", "ZBOND_MRG_FLAG",
                                       "DETENTION_DATE", "DETENTION_LOCATION", "DCO_LOCATION",
                                       "DETENTION_FACILITY_TYPE", "LPR"}]
      [] OTHER ->
            [auto_truncate |-> FALSE, expected_extra_cols |-> 0, high_nul_tolerance |-> FALSE,
             skip_validation_cols |-> {}]

\* The first line of each file, as get_header reads it: the primary key
\* column, a column the file's rules exempt (where it has rules), and one more.
HeaderOf(file) ==
    CASE file = "tbl_Court_Motions.csv" -> <<"IDNMOTION", "REJ", "DATMOTIONDUE">>
      [] file = "tblProBono.csv" -> <<"IDNPROBONO", "strA1", "Charge_1">>
      [] file = "A_TblCase.csv" -> <<"IDNCASE", "LPR", "DATE_OF_ENTRY">>
      [] OTHER -> <<"IDNSCHEDULE", "IDNCASE", "ADJ_DATE">>

\* The type tags of table-dtypes/<file>.json.
IntegerTag == "integer"
TimestampTag == "timestamp without time zone"
TimeTag == "time without time zone"
RegexTag == "^[A-Z]+$"
LookupTag == "tblLookupNationality.json"
TextTag == "text"
\* stands for a column the mapping does not name
Absent == "(absent)"

\* dtype.startswith("^") and dtype.endswith(".json") on the tags above
IsRegexTag(dtype) == dtype = RegexTag

IsLookupTag(dtype) == dtype = LookupTag

\* re.match(dtype, value) for the pattern RegexTag: one or more capitals
RegexMatch(dtype, value) ==
    /\ Len(value) > 0
    /\ \A k \in 1..Len(value) :
          value[k] \in {"A", "B", "C", "D", "E", "F", "G", "H", "I", "J", "K", "L", "M",
                        "N", "O", "P", "Q", "R", "S", "T", "U", "V", "W", "X", "Y", "Z"}

\* The type mappings a file may come with, column by column; the last one is
\* the missing mapping (self.dtypes = {}).
TypedProfiles ==
    { <<IntegerTag, IntegerTag, TimestampTag>>,
      <<IntegerTag, TimeTag, RegexTag>>,
      <<IntegerTag, TimeTag, TextTag>>,
      <<LookupTag, TextTag, Absent>> }

NoProfile == <<Absent, Absent, Absent>>

\* The mappings of the streamed files: the first one, and the missing one.
StreamProfiles == { <<IntegerTag, IntegerTag, TimestampTag>>, NoProfile }

\* self.dtypes: column name -> tag
DtypesOf(head, profile) ==
    [c \in {head[k] : k \in {j \in 1..Len(head) : profile[j] # Absent}} |->
        profile[CHOOSE k \in 1..Len(head) : head[k] = c]]

(***************************************************************************)
(* The records a file may hold.                                            *)
(***************************************************************************)
\* the longest row a rule of FILE_SPECIFIC_RULES expects
MaxRowLen(head) == Len(head) + FILE_SPECIFIC_RULES("tbl_Court_Motions.csv").expected_extra_cols

\* csv.reader returns [] for an empty line, so a record of one empty cell does
\* not exist: every other sequence of cells is a record.
IsRecord(r) == r # << <<>> >>

\* rows whose first cell is a and whose other cells are all b
StreamRows(head) ==
    { r \in { [k \in 1..n |-> IF k = 1 THEN a ELSE b] :
                n \in 1..MaxRowLen(head), a \in SmallCells, b \in SmallCells } :
        IsRecord(r) }

\* the rows of these that are as wide as the header or one cell wider
BatchRows(head) == {r \in StreamRows(head) : Len(r) \in {Len(head), Len(head) + 1}}

\* a row one cell short with an empty first cell, and a row one cell too long
WorkerRows(head) ==
    { [k \in 1..(Len(head) - 1) |-> IF k = 1 THEN <<>> ELSE <<"7">>],
      [k \in 1..(Len(head) + 1) |-> <<"7">>] }

\* the same rows with one cell replaced by any cell of RichCells
ProbeRows(head) ==
    { r \in UNION { { [q EXCEPT ![k] = c] : k \in 1..Len(q), c \in RichCells } :
                      q \in StreamRows(head) \cup { << <<>> >> } } :
        IsRecord(r) }

(***************************************************************************)
(* Paths and files.  A path is the sequence of its pieces, cut so that     *)
(* every occurrence of ".csv" is a piece of its own; the content of a file *)
(* is the sequence of its bytes.                                           *)
(***************************************************************************)
\* b"\x00"
NulByte == "\\x00"

\* data.replace(b"\x00", b"", 1): only the first NUL is removed.
RemoveNul_First(data) ==
    IF \E k \in 1..Len(data) : data[k] = NulByte
    THEN LET first == CHOOSE k \in 1..Len(data) :
                        data[k] = NulByte /\ \A j \in 1..(k - 1) : data[j] # NulByte
         IN  SubSeq(data, 1, first - 1) \o SubSeq(data, first + 1, Len(data))
    ELSE data

\* data.replace(b"\x00", b"")
RemoveNul(data) == SelectSeq(data, LAMBDA b : b # NulByte)

\* path.replace(old, new) for a piece old
ReplaceAll(path, old, new) == [k \in 1..Len(path) |-> IF path[k] = old THEN new ELSE path[k]]

\* os.path.abspath(csvfile).replace(".csv", "_no_nul.csv")
NoNulOf(path) == ReplaceAll(path, ".csv", "_no_nul.csv")

\* the position of the last separator of a path
LastSlash(path) == CHOOSE k \in 1..Len(path) :
                      path[k] = "/" /\ \A j \in (k + 1)..Len(path) : path[j] # "/"

\* the directory a path lies in
DirName(path) == SubSeq(path, 1, LastSlash(path) - 1)

RECURSIVE Concat(_)
Concat(pieces) == IF Len(pieces) = 0 THEN "" ELSE Head(pieces) \o Concat(Tail(pieces))

\* os.path.basename(path)
BaseName(path) == Concat(SubSeq(path, LastSlash(path) + 1, Len(path)))

\* The source files of the download directory.
StreamPaths ==
    { <<"/data", "/", stem, ".csv">> :
        stem \in {"tbl_Court_Motions", "tblProBono", "A_TblCase", "tbl_schedule"} }

\* Source paths that hold ".csv" once, not at all, and twice.
FilePaths ==
    { <<"/data", "/", "tbl_schedule", ".csv">>,
      <<"/data", "/", "tbl_schedule", ".txt">>,
      <<"/data", ".csv", "/", "tbl_schedule", ".csv">> }

\* The bytes of a streamed source file.
StreamBytes == <<"a", NulByte, "b">>

\* The bytes a source file may hold.
SourceBytes == { <<>>, <<"a">>, <<NulByte>>, <<"a", NulByte, "b", NulByte>> }

\* The bytes of an artifact that an earlier run left behind.
StaleBytes == <<"z">>

\* The file system holding the source and, with stale set, an old artifact.
FilesAt(path, bytes, stale) ==
    [q \in {path} \cup (IF stale THEN {NoNulOf(path)} ELSE {}) |->
        IF q = path THEN bytes ELSE StaleBytes]

(***************************************************************************)
(* State.                                                                  *)
(***************************************************************************)
VARIABLES
    csvfile,            \* self.csvfile: the path of the source file
    fs,                 \* the files that exist, each with its bytes
    dirs,               \* the directories that exist
    original,           \* the bytes of the source file at construction
    prepass_runs,       \* number of calls of replace_nul so far
    file_to_read,       \* validate_and_process_rows: file_to_read (<<>>: not opened)
    name,               \* self.name: basename of the csv file
    header,             \* self.header
    dtypes,             \* self.dtypes
    input,              \* "stream", "probe", "files", "batch", "workers":
                        \* which records the file holds
    cap,                \* number of lines the file holds after its header
    pc,                 \* "start", "rows" while the row generator runs, then
                        \* "done"; "failed" when a call raised
    i,                  \* enumerate index of the last line read (0: the header)
    row_count,          \* self.row_count
    empty_pk,           \* self.empty_pk
    empty_primary_keys, \* self.empty_primary_keys
    bad_rows,           \* self.bad_rows
    modifications,      \* self.modifications (the ledger)
    rows_processed,     \* copy_csv_to_table: rows_processed
    rows_loaded,        \* copy_csv_to_table: rows_loaded
    sink,               \* the lines copy.write accepted, in order
    trace,              \* per yielded row: what was read, yielded and written
    results,            \* cli clean all: results, one per file processed
    queue,              \* cli clean all: the files still to process
    parked,             \* a second validator that is not taking a step, or <<>>
    retry,              \* download_file: the parameter retry
    max_retries,        \* download_file: the parameter max_retries
    retries,            \* download_file: retries
    attempts,           \* download_file: the requests made so far, in order
    history,            \* the downloads recorded by record_download_in_history
    dl                  \* download_file: "idle", "trying", "returned", "raised"

vars == <<csvfile, fs, dirs, original, prepass_runs, file_to_read,
          name, header, dtypes, input, cap, pc, i, row_count, empty_pk,
          empty_primary_keys, bad_rows, modifications, rows_processed,
          rows_loaded, sink, trace, results, queue, parked,
          retry, max_retries, retries, attempts, history, dl>>

\* what the row generator and the loading loop leave alone once the file is open
files == <<csvfile, fs, dirs, original, prepass_runs, file_to_read>>

\* the variables of download_file
download == <<retry, max_retries, retries, attempts, history, dl>>

\* what a step of one validator leaves alone: the batch, the other
\* validator and the download
apart == <<results, queue, parked, retry, max_retries, retries, attempts, history, dl>>

\* self.no_nul
no_nul == NoNulOf(csvfile)

header_length == Len(header)

validation_rules == FILE_SPECIFIC_RULES(name)

\* self.header[0] if self.header else None, as the column of a modification
primary_key_column == IF Len(header) > 0 THEN <<header[1]>> ELSE <<>>

\* str(n) for the small numbers of the model
Str(n) == DigitChars[n + 1]

(***************************************************************************)
(* CsvValidator._create_row_modification                                   *)
(***************************************************************************)
\* column is <<>> for None; values and reasons are the pieces of the
\* formatted string, in order.
RowModification(row_number, mod_type, column, old_val, new_val, reason) ==
    [row_number |-> row_number, modification_type |-> mod_type,
     column_affected |-> column, original_value |-> old_val,
     new_value |-> new_val, reason |-> reason]

(***************************************************************************)
(* CsvValidator.correct_row_length                                         *)
(***************************************************************************)
\* f"Length {len(row)}"
LengthOf(row) == <<"Length ", Str(Len(row))>>

\* A reconciler that adds the missing cells in front of the row.
PadRow_Front(row) == [k \in 1..(header_length - Len(row)) |-> <<>>] \o row

\* corrected_row.extend([""] * missing_cols)
PadRow(row) == row \o [k \in 1..(header_length - Len(row)) |-> <<>>]

\* row[: self.header_length]
TruncateRow(row) == SubSeq(row, 1, header_length)

\* The test of legacy remove_extra_cols, `if not self.is_nul_like:`, which
\* looks at the method and not at the cells: the extra columns always count
\* as empty.
ExtraColsEmpty_MethodReference(extra_cols) == TRUE

\* all(self.is_nul_like(col) for col in extra_cols)
ExtraColsEmpty(extra_cols) == \A k \in 1..Len(extra_cols) : is_nul_like(extra_cols[k])

\* the branch of an expected overflow whose extra columns are empty
Truncated(row, row_number) ==
    [row |-> TruncateRow(row),
     mods |-> << RowModification(row_number, "truncate", <<>>, LengthOf(row),
                    LengthOf(TruncateRow(row)),
                    <<"Auto-truncated ", Str(validation_rules.expected_extra_cols),
                      " empty trailing columns">>) >>]

\* the branch of an expected overflow whose extra columns hold data
LongWithData(row, row_number) ==
    [row |-> row,
     mods |-> << RowModification(row_number, "flag_long_row", <<>>, LengthOf(row),
                    LengthOf(row),
                    <<"Row has ", Str(Len(row) - header_length),
                      " extra columns with data">>) >>]

\* the branch of an overflow the file's rule does not expect
UnexpectedLength(row, row_number) ==
    [row |-> row,
     mods |-> << RowModification(row_number, "flag_unexpected_length", <<>>, LengthOf(row),
                    LengthOf(row),
                    <<"Unexpected row length: expected ", Str(header_length), " + ",
                      Str(validation_rules.expected_extra_cols), ", got ",
                      Str(Len(row))>>) >>]

\* A reconciler that flags every overflow outside the rule the same way.
RowTooLong_AsUnexpected(row, row_number) == UnexpectedLength(row, row_number)

\* the branch of an overflow in a file without an auto-truncation rule
RowTooLong(row, row_number) ==
    [row |-> row,
     mods |-> << RowModification(row_number, "flag_long_row", <<>>, LengthOf(row),
                    LengthOf(row),
                    <<"Row too long: expected ", Str(header_length), ", got ",
                      Str(Len(row))>>) >>]

\* A reconciler that logs one pad entry for every cell it adds.
Padded_PerCell(row, row_number) ==
    [row |-> PadRow(row),
     mods |-> [k \in 1..(header_length - Len(row)) |->
                 RowModification(row_number, "pad", <<>>, LengthOf(row),
                    LengthOf(PadRow(row)),
                    <<"Padded ", Str(1), " missing columns with empty values">>)]]

\* the branch of a short row
Padded(row, row_number) ==
    [row |-> PadRow(row),
     mods |-> << RowModification(row_number, "pad", <<>>, LengthOf(row),
                    LengthOf(PadRow(row)),
                    <<"Padded ", Str(header_length - Len(row)),
                      " missing columns with empty values">>) >>]

correct_row_length(row, row_number) ==
    IF Len(row) = header_length THEN [row |-> row, mods |-> <<>>]
    ELSE IF Len(row) > header_length THEN
        IF validation_rules.auto_truncate THEN
            IF Len(row) = header_length + validation_rules.expected_extra_cols THEN
                IF ExtraColsEmpty(SubSeq(row, header_length + 1, Len(row)))
                THEN Truncated(row, row_number)
                ELSE LongWithData(row, row_number)
            ELSE UnexpectedLength(row, row_number)
        ELSE RowTooLong(row, row_number)
    ELSE Padded(row, row_number)

(***************************************************************************)
(* CsvValidator.validate_primary_key: <<>> for None, else one modification *)
(***************************************************************************)
\* A guard that tests the key only in a file that has a type mapping.
validate_primary_key_TypedOnly(row, row_number) ==
    IF DOMAIN dtypes # {} /\ is_nul_like(row[1]) THEN
        << RowModification(row_number, "empty_primary_key", primary_key_column,
                           row[1], <<"INVALID">>,
                           <<"Primary key cannot be empty or null-like">>) >>
    ELSE <<>>

validate_primary_key(row, row_number) ==
    IF Len(row) = 0 THEN
        << RowModification(row_number, "empty_primary_key", primary_key_column,
                           <<"[EMPTY ROW]">>, <<"INVALID">>, <<"Row is completely empty">>) >>
    ELSE IF is_nul_like(row[1]) THEN
        << RowModification(row_number, "empty_primary_key", primary_key_column,
                           row[1], <<"INVALID">>,
                           <<"Primary key cannot be empty or null-like">>) >>
    ELSE <<>>

(***************************************************************************)
(* CsvValidator.detect_data_quality_issues                                 *)
(***************************************************************************)
\* The detection pass without the exemption of skip_validation_cols.
DetectCell_NoExempt(k, raw) ==
    LET col_name == header[k]
        dtype == dtypes[col_name]
        value == StripValue(raw)
        bad(reason) == << [col |-> k - 1, value |-> value, reason |-> reason] >>
    IN  IF validation_rules.high_nul_tolerance /\ is_nul_like(raw) THEN <<>>
        ELSE IF col_name \notin DOMAIN dtypes THEN <<>>
        ELSE IF is_nul_like(value) THEN <<>>
        ELSE IF dtype = TimestampTag THEN
            IF convert_timestamp(value) = NullSentinel
            THEN bad(<<"Invalid timestamp format">>) ELSE <<>>
        ELSE IF dtype = TimeTag THEN
            IF convert_time(value) = NullSentinel
            THEN bad(<<"Invalid time format">>) ELSE <<>>
        ELSE IF dtype = IntegerTag THEN
            IF convert_integer(value) = NullSentinel
            THEN bad(<<"Invalid integer format">>) ELSE <<>>
        ELSE IF IsRegexTag(dtype) THEN
            IF ~RegexMatch(dtype, value)
            THEN bad(<<"Does not match pattern ", dtype>>) ELSE <<>>
        ELSE <<>>

\* The violations of one cell: <<>> or one (column index, value, reason).
DetectCell(k, raw) ==
    LET col_name == header[k]
        dtype == dtypes[col_name]
        value == StripValue(raw)
        bad(reason) == << [col |-> k - 1, value |-> value, reason |-> reason] >>
    IN  IF col_name \in validation_rules.skip_validation_cols THEN <<>>
        ELSE IF validation_rules.high_nul_tolerance /\ is_nul_like(raw) THEN <<>>
        ELSE IF col_name \notin DOMAIN dtypes THEN <<>>
        ELSE IF is_nul_like(value) THEN <<>>
        ELSE IF dtype = TimestampTag THEN
            IF convert_timestamp(value) = NullSentinel
            THEN bad(<<"Invalid timestamp format">>) ELSE <<>>
        ELSE IF dtype = TimeTag THEN
            IF convert_time(value) = NullSentinel
            THEN bad(<<"Invalid time format">>) ELSE <<>>
        ELSE IF dtype = IntegerTag THEN
            IF convert_integer(value) = NullSentinel
            THEN bad(<<"Invalid integer format">>) ELSE <<>>
        ELSE IF IsRegexTag(dtype) THEN
            IF ~RegexMatch(dtype, value)
            THEN bad(<<"Does not match pattern ", dtype>>) ELSE <<>>
        ELSE <<>>

RECURSIVE DetectFrom(_, _)
DetectFrom(row, k) ==
    IF k > Len(row) \/ k > Len(header) THEN <<>>
    ELSE DetectCell(k, row[k]) \o DetectFrom(row, k + 1)

detect_data_quality_issues(row) ==
    IF DOMAIN dtypes = {} THEN <<>> ELSE DetectFrom(row, 1)

(***************************************************************************)
(* CsvValidator.clean_row                                                  *)
(***************************************************************************)
ConvertToNull(row_number, col_name, original_value, reason) ==
    RowModification(row_number, "convert_to_null", <<col_name>>, original_value,
                    NullSentinel, <<reason>>)

\* The last branch of the repair pass that leaves the pipes in.
OtherType_KeepsPipes(dtype, value) == value

\* The last branch of the repair pass that also enforces a pattern.
OtherType_RegexEnforced(dtype, value) ==
    IF IsRegexTag(dtype) /\ ~RegexMatch(dtype, value) THEN NullSentinel
    ELSE RemoveChar(value, "|")

\* The last branch of the repair pass, for every type that is not a
\* timestamp, a time or an integer: value.replace("|", "")
OtherType(dtype, value) == RemoveChar(value, "|")

\* The repair pass that replaces a null-like value without logging it.
CleanCell_SilentNull(k, original_value, row_number) ==
    LET col_name == header[k]
        dtype == dtypes[col_name]
        value == StripValue(original_value)
        typed(converted, reason) ==
            [out |-> converted,
             mods |-> IF converted = NullSentinel /\ original_value # NullSentinel
                      THEN << ConvertToNull(row_number, col_name, original_value, reason) >>
                      ELSE <<>>]
    IN  IF col_name \notin DOMAIN dtypes THEN
            [out |-> RemoveChar(original_value, "|"), mods |-> <<>>]
        ELSE IF is_nul_like(value) THEN
            [out |-> NullSentinel, mods |-> <<>>]
        ELSE IF dtype = TimestampTag THEN
            typed(convert_timestamp(value), "Invalid timestamp format")
        ELSE IF dtype = TimeTag THEN
            typed(convert_time(value), "Invalid time format")
        ELSE IF dtype = IntegerTag THEN
            typed(convert_integer(value), "Invalid integer format")
        ELSE [out |-> OtherType(dtype, value), mods |-> <<>>]

\* One iteration of the loop over the cells inside the header: the cell
\* written back and the modifications recorded.
CleanCell(k, original_value, row_number) ==
    LET col_name == header[k]
        dtype == dtypes[col_name]
        value == StripValue(original_value)
        typed(converted, reason) ==
            [out |-> converted,
             mods |-> IF converted = NullSentinel /\ original_value # NullSentinel
                      THEN << ConvertToNull(row_number, col_name, original_value, reason) >>
                      ELSE <<>>]
    IN  IF col_name \notin DOMAIN dtypes THEN
            [out |-> RemoveChar(original_value, "|"), mods |-> <<>>]
        ELSE IF is_nul_like(value) THEN
            [out |-> NullSentinel,
             mods |-> IF original_value # NullSentinel
                      THEN << ConvertToNull(row_number, col_name, original_value,
                                            "Converted null-like value") >>
                      ELSE <<>>]
        ELSE IF dtype = TimestampTag THEN
            typed(convert_timestamp(value), "Invalid timestamp format")
        ELSE IF dtype = TimeTag THEN
            typed(convert_time(value), "Invalid time format")
        ELSE IF dtype = IntegerTag THEN
            typed(convert_integer(value), "Invalid integer format")
        ELSE [out |-> OtherType(dtype, value), mods |-> <<>>]

RECURSIVE CleanModsFrom(_, _, _)
CleanModsFrom(row, k, row_number) ==
    IF k > Len(row) \/ k > Len(header) THEN <<>>
    ELSE CleanCell(k, row[k], row_number).mods \o CleanModsFrom(row, k + 1, row_number)

\* A repair pass that returns the row as it is when there is no type mapping.
clean_row_Untouched(row, row_number) ==
    IF DOMAIN dtypes = {} THEN [row |-> row, mods |-> <<>>]
    ELSE
        [row |-> [k \in 1..Len(row) |->
                    IF k > Len(header) THEN row[k] ELSE CleanCell(k, row[k], row_number).out],
         mods |-> CleanModsFrom(row, 1, row_number)]

\* The returned row and the modifications it records, in order.
clean_row(row, row_number) ==
    IF DOMAIN dtypes = {} THEN
        [row |-> [k \in 1..Len(row) |-> RemoveChar(row[k], "|")], mods |-> <<>>]
    ELSE
        [row |-> [k \in 1..Len(row) |->
                    IF k > Len(header) THEN row[k] ELSE CleanCell(k, row[k], row_number).out],
         mods |-> CleanModsFrom(row, 1, row_number)]

(***************************************************************************)
(* copy_csv_to_table: the line built from a yielded row                    *)
(***************************************************************************)
FormatCell(cell) == IF Len(cell) = 0 \/ is_nul_like(cell) THEN NullSentinel ELSE cell

RECURSIVE JoinPipe(_)
JoinPipe(cells) ==
    IF Len(cells) = 0 THEN <<>>
    ELSE IF Len(cells) = 1 THEN cells[1]
    ELSE cells[1] \o <<"|">> \o JoinPipe(Tail(cells))

\* formatted_row + "\n"
FormatLine(row) == JoinPipe([k \in 1..Len(row) |-> FormatCell(row[k])]) \o <<"\n">>

(***************************************************************************)
(* Initial states: a validator just constructed for one file, and the      *)
(* loading loop about to start.                                            *)
(***************************************************************************)
\* The files on disk when the validator is constructed.
OnDisk(path, bytes, stale, folders) ==
    /\ csvfile = path
    /\ fs = FilesAt(path, bytes, stale)
    /\ dirs = folders
    /\ original = bytes
    /\ prepass_runs = 0
    /\ file_to_read = <<>>

Fresh(file, profile, kind, lines) ==
    /\ name = file
    /\ header = HeaderOf(file)
    /\ dtypes = DtypesOf(HeaderOf(file), profile)
    /\ input = kind
    /\ cap = lines
    /\ pc = "start"
    /\ i = 0
    /\ row_count = 0
    /\ empty_pk = 0
    /\ empty_primary_keys = <<>>
    /\ bad_rows = <<>>
    /\ modifications = <<>>
    /\ rows_processed = 0
    /\ rows_loaded = 0
    /\ sink = <<>>
    /\ trace = <<>>

\* No batch, no second validator and no download.
Alone ==
    /\ results = <<>>
    /\ queue = <<>>
    /\ parked = <<>>
    /\ retry = TRUE
    /\ max_retries = 0
    /\ retries = 0
    /\ attempts = <<>>
    /\ history = <<>>
    /\ dl = "idle"

\* The streamed files: one with a truncation rule and one without rules.
StreamFiles == {"tbl_Court_Motions.csv", "tbl_schedule.csv"}

\* A file of up to MaxLines lines over SmallCells.
Init ==
    \E path \in StreamPaths, profile \in StreamProfiles :
        /\ BaseName(path) \in StreamFiles
        /\ OnDisk(path, StreamBytes, FALSE, {DirName(path)})
        /\ Fresh(BaseName(path), profile, "stream", MaxLines)
        /\ Alone

\* A file of one line in which one cell is any of RichCells.
InitProbe ==
    \E path \in StreamPaths, profile \in TypedProfiles \cup {NoProfile} :
        /\ BaseName(path) \in FileNames
        /\ OnDisk(path, StreamBytes, FALSE, {DirName(path)})
        /\ Fresh(BaseName(path), profile, "probe", 1)
        /\ Alone

\* A file of one line at any of FilePaths, holding any of SourceBytes, with or
\* without the directory of the artifact and an artifact of an earlier run.
\* No type mapping is found for it.
InitFiles ==
    \E path \in FilePaths, bytes \in SourceBytes, stale \in BOOLEAN :
      \E folders \in { {DirName(path)}, {DirName(path), DirName(NoNulOf(path))} } :
        /\ stale => (NoNulOf(path) # path /\ DirName(NoNulOf(path)) \in folders)
        /\ OnDisk(path, bytes, stale, folders)
        /\ Fresh(BaseName(path), NoProfile, "files", 1)
        /\ Alone

\* The calls of replace_nul the caller makes before it validates the file.
PrepassCap(kind) == IF kind = "files" THEN MaxPrepassRuns ELSE 1

RowsOf(kind) ==
    IF kind = "probe" THEN ProbeRows(header)
    ELSE IF kind = "batch" THEN BatchRows(header)
    ELSE IF kind = "workers" THEN WorkerRows(header)
    ELSE StreamRows(header)

\* Counting a row as loaded before the outcome of the write is known.
CountLoaded_BeforeWrite(loaded, accepted) == loaded + 1

\* copy_csv_to_table: rows_loaded += 1 after copy.write returned; when it
\* raised, the exception is logged and the loop goes on.
CountLoaded(loaded, accepted) == IF accepted THEN loaded + 1 ELSE loaded

\* Recording at the head of the ledger: self.modifications.insert(0, ...)
record_modifications_Prepend(ledger, mods) == mods \o ledger

\* record_modification, for each of a list of modifications in order:
\* self.modifications.append(modification)
record_modifications(ledger, mods) == ledger \o mods

(***************************************************************************)
(* One iteration of copy_csv_to_table's loop over                          *)
(* validate_and_process_rows(): the generator reads a non-empty record,    *)
(* runs the primary-key guard, the reconciler, the detection pass and the  *)
(* repair pass, and yields; the loop formats the row and writes it to the  *)
(* sink, which accepts the line (accepted) or raises.                      *)
(***************************************************************************)
ProcessRow(row, accepted) ==
    LET row_number == i + 1
        pk_issue == validate_primary_key(row, row_number)
        corrected == correct_row_length(row, row_number)
        bad_values == detect_data_quality_issues(corrected.row)
        all_modifications == corrected.mods \o pk_issue
        tracked == bad_values # <<>> \/ all_modifications # <<>>
        cleaned == clean_row(corrected.row, row_number)
        line == FormatLine(cleaned.row)
    IN  /\ i' = i + 1
        /\ empty_primary_keys' = IF pk_issue # <<>> THEN Append(empty_primary_keys, row_number)
                                 ELSE empty_primary_keys
        /\ empty_pk' = IF pk_issue # <<>> THEN empty_pk + 1 ELSE empty_pk
        /\ bad_rows' = IF tracked
                       THEN Append(bad_rows,
                                   [row_number |-> row_number,
                                    original_row |-> row,
                                    corrected_row |-> corrected.row,
                                    bad_values |-> bad_values,
                                    modifications |-> all_modifications,
                                    has_empty_pk |-> pk_issue # <<>>])
                       ELSE bad_rows
        /\ modifications' =
              record_modifications(
                  record_modifications(
                      record_modifications(modifications, pk_issue),
                      IF tracked THEN corrected.mods ELSE <<>>),
                  cleaned.mods)
        /\ rows_processed' = rows_processed + 1
        /\ rows_loaded' = CountLoaded(rows_loaded, accepted)
        /\ sink' = IF accepted THEN Append(sink, line) ELSE sink
        /\ trace' = Append(trace, [row_number |-> row_number,
                                   row |-> row,
                                   yielded |-> cleaned.row,
                                   line |-> line,
                                   loaded |-> accepted,
                                   ledger_before |-> Len(modifications)])
        /\ UNCHANGED <<name, header, dtypes, input, cap, pc, row_count>>
        /\ UNCHANGED files
        /\ UNCHANGED apart

\* A generator that raises at the first row with a structural or type problem.
ReadRow_StopsAtBadRow ==
    /\ pc = "rows"
    /\ i < cap
    /\ \E row \in RowsOf(input), accepted \in BOOLEAN :
          LET corrected == correct_row_length(row, i + 1)
          IN  IF corrected.mods # <<>> \/ detect_data_quality_issues(corrected.row) # <<>>
              THEN /\ pc' = "failed"
                   /\ UNCHANGED <<name, header, dtypes, input, cap, i, row_count, empty_pk,
                                  empty_primary_keys, bad_rows, modifications,
                                  rows_processed, rows_loaded, sink, trace>>
                   /\ UNCHANGED files
                   /\ UNCHANGED apart
              ELSE ProcessRow(row, accepted)

\* The generator reads the next record, which is not empty, and the loop body
\* runs for the row it yields.
ReadRow ==
    /\ pc = "rows"
    /\ i < cap
    /\ \E row \in RowsOf(input), accepted \in BOOLEAN : ProcessRow(row, accepted)

\* `if not row: continue`: an empty line is read and skipped.
SkipEmptyLine ==
    /\ pc = "rows"
    /\ i < cap
    /\ i' = i + 1
    /\ UNCHANGED <<name, header, dtypes, input, cap, pc, row_count, empty_pk,
                   empty_primary_keys, bad_rows, modifications, rows_processed,
                   rows_loaded, sink, trace>>
    /\ UNCHANGED files
    /\ UNCHANGED apart

\* The reader is exhausted: self.row_count = i, and the generator ends.
EndOfFile ==
    /\ pc = "rows"
    /\ row_count' = i
    /\ pc' = "done"
    /\ UNCHANGED <<name, header, dtypes, input, cap, i, empty_pk,
                   empty_primary_keys, bad_rows, modifications, rows_processed,
                   rows_loaded, sink, trace>>
    /\ UNCHANGED files
    /\ UNCHANGED apart

\* what the calls on files leave alone
validation == <<name, header, dtypes, input, cap, i, row_count, empty_pk,
                empty_primary_keys, bad_rows, modifications, rows_processed,
                rows_loaded, sink, trace>>

\* The file system after open(path, "wb"), write(data) and close().
Written(path, data) ==
    [q \in DOMAIN fs \cup {path} |-> IF q = path THEN data ELSE fs[q]]

\* The file system after os.remove(path).
Removed(path) == [q \in DOMAIN fs \ {path} |-> fs[q]]

(***************************************************************************)
(* CsvValidator.replace_nul, called before the file is validated: it reads *)
(* the bytes of csvfile and writes them without NUL bytes to no_nul.       *)
(* Either open raises when its file, or the directory to write in, does    *)
(* not exist.                                                              *)
(***************************************************************************)
replace_nul ==
    /\ pc = "start"
    /\ prepass_runs < PrepassCap(input)
    /\ prepass_runs' = prepass_runs + 1
    /\ IF csvfile \in DOMAIN fs /\ DirName(no_nul) \in dirs
       THEN /\ fs' = Written(no_nul, RemoveNul(fs[csvfile]))
            /\ pc' = pc
       ELSE /\ fs' = fs
            /\ pc' = "failed"
    /\ UNCHANGED <<csvfile, dirs, original, file_to_read>>
    /\ UNCHANGED validation
    /\ UNCHANGED apart

(***************************************************************************)
(* CsvValidator.del_no_nul, called once the file has been loaded, as the   *)
(* legacy loader did: it removes no_nul if it exists.                      *)
(***************************************************************************)
del_no_nul ==
    /\ pc = "done"
    /\ no_nul \in DOMAIN fs
    /\ fs' = Removed(no_nul)
    /\ UNCHANGED <<csvfile, dirs, original, prepass_runs, file_to_read, pc>>
    /\ UNCHANGED validation
    /\ UNCHANGED apart

\* Opening the artifact without looking whether it exists.
OpenFile_AlwaysArtifact ==
    /\ pc = "start"
    /\ file_to_read' = no_nul
    /\ pc' = IF file_to_read' \in DOMAIN fs THEN "rows" ELSE "failed"
    /\ UNCHANGED <<csvfile, fs, dirs, original, prepass_runs>>
    /\ UNCHANGED validation
    /\ UNCHANGED apart

(***************************************************************************)
(* validate_and_process_rows up to its first row: it chooses no_nul if     *)
(* that file exists and csvfile otherwise, opens it and skips the header.  *)
(***************************************************************************)
OpenFile ==
    /\ pc = "start"
    /\ file_to_read' = IF no_nul \in DOMAIN fs THEN no_nul ELSE csvfile
    /\ pc' = IF file_to_read' \in DOMAIN fs THEN "rows" ELSE "failed"
    /\ UNCHANGED <<csvfile, fs, dirs, original, prepass_runs>>
    /\ UNCHANGED validation
    /\ UNCHANGED apart

(***************************************************************************)
(* CsvValidator.generate_quality_report                                    *)
(***************************************************************************)
\* [r for r in self.bad_rows if r.get("modifications")]
WithModifications == {b \in 1..Len(bad_rows) : bad_rows[b].modifications # <<>>}

\* [r for r in self.bad_rows if r.get("bad_values")]
WithBadValues == {b \in 1..Len(bad_rows) : bad_rows[b].bad_values # <<>>}

\* mod_summary: modification type -> number of entries of the ledger
ModSummary(mods) ==
    [k \in {mods[j].modification_type : j \in 1..Len(mods)} |->
        Cardinality({j \in 1..Len(mods) : mods[j].modification_type = k})]

\* the dict {}
EmptyDict == [k \in {} |-> 0]

generate_quality_report ==
    IF bad_rows = <<>> THEN
        [total_rows |-> row_count, structural_issues |-> 0, data_quality_issues |-> 0,
         modifications_summary |-> EmptyDict, recommendations |-> <<>>]
    ELSE
        LET structural_issues == Cardinality(WithModifications)
            data_quality_issues == Cardinality(WithBadValues)
        IN  [total_rows |-> row_count,
             structural_issues |-> structural_issues,
             data_quality_issues |-> data_quality_issues,
             modifications_summary |-> ModSummary(modifications),
             recommendations |->
                (IF structural_issues > 0
                 THEN << <<"Review ", Str(structural_issues), " rows with structural issues">> >>
                 ELSE <<>>) \o
                (IF data_quality_issues > 0
                 THEN << <<"Review ", Str(data_quality_issues),
                           " rows with data quality issues">> >>
                 ELSE <<>>)]

(***************************************************************************)
(* clean_single_file and the statistics copy_csv_to_table returns          *)
(***************************************************************************)
\* the dictionary copy_csv_to_table returns, with csv_file added
CopyResult ==
    [csv_file |-> csvfile,
     success |-> TRUE,
     rows_processed |-> rows_processed,
     rows_loaded |-> rows_loaded,
     total_modifications |-> Len(modifications),
     empty_primary_keys |-> Len(empty_primary_keys),
     data_quality_issues |-> Cardinality(WithBadValues),
     structural_issues |-> Len(bad_rows) - Cardinality(WithBadValues),
     quality_report |-> generate_quality_report]

\* the dictionary clean_single_file returns when a call raised
FailureResult ==
    [csv_file |-> csvfile, success |-> FALSE, rows_processed |-> 0, rows_loaded |-> 0]

\* The first line a file may hold: the header of its table, or an empty line,
\* for which csv.reader returns [].
FirstLines(file) == {HeaderOf(file), <<>>}

\* The lines after the header in the files of a batch: the first file holds
\* up to MaxLines, the others one.
LinesOf(done) == IF done = 0 THEN MaxLines ELSE 1

\* CsvValidator(str(csv_file)): get_header opens the file and reads its first
\* line (open raises for an unreadable file, next raises for an empty one),
\* the counters are reset and the type mapping is loaded, {} when there is
\* none.
Construct ==
    /\ pc = "new"
    /\ \E readable \in BOOLEAN, head \in FirstLines(BaseName(csvfile)),
          profile \in StreamProfiles :
          IF readable /\ csvfile \in DOMAIN fs /\ fs[csvfile] # <<>>
          THEN /\ header' = head
               /\ name' = BaseName(csvfile)
               /\ dtypes' = DtypesOf(HeaderOf(BaseName(csvfile)), profile)
               /\ cap' = LinesOf(Len(results))
               /\ pc' = "built"
          ELSE /\ pc' = "failed"
               /\ UNCHANGED <<header, name, dtypes, cap>>
    /\ UNCHANGED <<input, i, row_count, empty_pk, empty_primary_keys, bad_rows,
                   modifications, rows_processed, rows_loaded, sink, trace>>
    /\ UNCHANGED files
    /\ UNCHANGED apart

\* copy_csv_to_table before its loop: get_table_name, and the check that the
\* table exists, which raises when it does not.
BeginCopy ==
    /\ pc = "built"
    /\ \E table_exists \in BOOLEAN : pc' = IF table_exists THEN "start" ELSE "failed"
    /\ UNCHANGED validation
    /\ UNCHANGED files
    /\ UNCHANGED apart

\* copy_csv_to_table after its loop, and the return of clean_single_file to
\* the loop of the command, which appends the result.
Return ==
    /\ pc = "done"
    /\ results' = Append(results, CopyResult)
    /\ pc' = "returned"
    /\ UNCHANGED validation
    /\ UNCHANGED files
    /\ UNCHANGED <<queue, parked>>
    /\ UNCHANGED download

\* except Exception in clean_single_file
Except ==
    /\ pc = "failed"
    /\ results' = Append(results, FailureResult)
    /\ pc' = "returned"
    /\ UNCHANGED validation
    /\ UNCHANGED files
    /\ UNCHANGED <<queue, parked>>
    /\ UNCHANGED download

\* for csv_file in files: the next file of the batch, with nothing kept of
\* the validator of the file before.
NextFile ==
    /\ pc = "returned"
    /\ queue # <<>>
    /\ csvfile' = Head(queue)
    /\ queue' = Tail(queue)
    /\ original' = fs[Head(queue)]
    /\ prepass_runs' = 0
    /\ file_to_read' = <<>>
    /\ name' = ""
    /\ header' = <<>>
    /\ dtypes' = EmptyDict
    /\ cap' = 0
    /\ pc' = "new"
    /\ i' = 0
    /\ row_count' = 0
    /\ empty_pk' = 0
    /\ empty_primary_keys' = <<>>
    /\ bad_rows' = <<>>
    /\ modifications' = <<>>
    /\ rows_processed' = 0
    /\ rows_loaded' = 0
    /\ sink' = <<>>
    /\ trace' = <<>>
    /\ UNCHANGED <<fs, dirs, input, results, parked>>
    /\ UNCHANGED download

\* The files of a batch, as get_csv_files sorts them.
BatchFiles == << <<"/data", "/", "tbl_Court_Motions", ".csv">>,
                 <<"/data", "/", "tbl_schedule", ".csv">> >>

\* The command clean all about to process the first file of a batch whose
\* files are empty or not.
InitClean ==
    \E bytes \in [1..Len(BatchFiles) -> {<<>>, StreamBytes}] :
        /\ csvfile = Head(BatchFiles)
        /\ queue = Tail(BatchFiles)
        /\ fs = [q \in {BatchFiles[k] : k \in 1..Len(BatchFiles)} |->
                    bytes[CHOOSE k \in 1..Len(BatchFiles) : BatchFiles[k] = q]]
        /\ dirs = {DirName(Head(BatchFiles))}
        /\ original = bytes[1]
        /\ prepass_runs = 0
        /\ file_to_read = <<>>
        /\ name = ""
        /\ header = <<>>
        /\ dtypes = EmptyDict
        /\ input = "batch"
        /\ cap = 0
        /\ pc = "new"
        /\ i = 0
        /\ row_count = 0
        /\ empty_pk = 0
        /\ empty_primary_keys = <<>>
        /\ bad_rows = <<>>
        /\ modifications = <<>>
        /\ rows_processed = 0
        /\ rows_loaded = 0
        /\ sink = <<>>
        /\ trace = <<>>
        /\ results = <<>>
        /\ parked = <<>>
        /\ retry = TRUE
        /\ max_retries = 0
        /\ retries = 0
        /\ attempts = <<>>
        /\ history = <<>>
        /\ dl = "idle"

\* The steps of the command clean all: clean_single_file for each file, which
\* does not call replace_nul or del_no_nul.
NextClean ==
    Construct \/ BeginCopy \/ OpenFile \/ ReadRow \/ SkipEmptyLine \/ EndOfFile
        \/ Return \/ Except \/ NextFile

(***************************************************************************)
(* Two validators for two files.  Each instance owns what __init__ and the *)
(* loading loop create for it; the variables hold the state of the         *)
(* validator that takes the next step and parked that of the other one.    *)
(***************************************************************************)
\* A validator that keeps its ledger outside its own state.
ValidatorState_WithoutLedger ==
    [csvfile |-> csvfile, original |-> original,
     prepass_runs |-> prepass_runs, file_to_read |-> file_to_read,
     name |-> name, header |-> header, dtypes |-> dtypes, input |-> input,
     cap |-> cap, pc |-> pc, i |-> i, row_count |-> row_count,
     empty_pk |-> empty_pk, empty_primary_keys |-> empty_primary_keys,
     bad_rows |-> bad_rows, modifications |-> <<>>,
     rows_processed |-> rows_processed, rows_loaded |-> rows_loaded,
     sink |-> sink, trace |-> trace]

\* The attributes of one CsvValidator and the locals of its loading loop.
ValidatorState ==
    [csvfile |-> csvfile, original |-> original,
     prepass_runs |-> prepass_runs, file_to_read |-> file_to_read,
     name |-> name, header |-> header, dtypes |-> dtypes, input |-> input,
     cap |-> cap, pc |-> pc, i |-> i, row_count |-> row_count,
     empty_pk |-> empty_pk, empty_primary_keys |-> empty_primary_keys,
     bad_rows |-> bad_rows, modifications |-> modifications,
     rows_processed |-> rows_processed, rows_loaded |-> rows_loaded,
     sink |-> sink, trace |-> trace]

\* The other validator takes the next step.
Switch ==
    /\ parked # <<>>
    /\ parked' = ValidatorState
    /\ csvfile' = parked.csvfile
    /\ original' = parked.original
    /\ prepass_runs' = parked.prepass_runs
    /\ file_to_read' = parked.file_to_read
    /\ name' = parked.name
    /\ header' = parked.header
    /\ dtypes' = parked.dtypes
    /\ input' = parked.input
    /\ cap' = parked.cap
    /\ pc' = parked.pc
    /\ i' = parked.i
    /\ row_count' = parked.row_count
    /\ empty_pk' = parked.empty_pk
    /\ empty_primary_keys' = parked.empty_primary_keys
    /\ bad_rows' = parked.bad_rows
    /\ modifications' = parked.modifications
    /\ rows_processed' = parked.rows_processed
    /\ rows_loaded' = parked.rows_loaded
    /\ sink' = parked.sink
    /\ trace' = parked.trace
    /\ UNCHANGED <<fs, dirs, results, queue>>
    /\ UNCHANGED download

\* A validator for tbl_Court_Motions.csv and one for tbl_schedule.csv, each
\* just constructed for a file of up to MaxLines lines; one of the two files
\* has a type mapping and the other has none.
InitWorkers ==
    \E mine \in StreamProfiles : \E other \in StreamProfiles \ {mine} :
        LET first == <<"/data", "/", "tbl_Court_Motions", ".csv">>
            second == <<"/data", "/", "tbl_schedule", ".csv">>
        IN  /\ csvfile = first
            /\ fs = [q \in {first, second} |-> StreamBytes]
            /\ dirs = {DirName(first)}
            /\ original = StreamBytes
            /\ prepass_runs = 0
            /\ file_to_read = <<>>
            /\ Fresh(BaseName(first), mine, "workers", MaxLines)
            /\ results = <<>>
            /\ queue = <<>>
            /\ parked = [csvfile |-> second, original |-> StreamBytes, prepass_runs |-> 0,
                         file_to_read |-> <<>>, name |-> BaseName(second),
                         header |-> HeaderOf(BaseName(second)),
                         dtypes |-> DtypesOf(HeaderOf(BaseName(second)), other),
                         input |-> "workers", cap |-> MaxLines, pc |-> "start", i |-> 0,
                         row_count |-> 0, empty_pk |-> 0, empty_primary_keys |-> <<>>,
                         bad_rows |-> <<>>, modifications |-> <<>>, rows_processed |-> 0,
                         rows_loaded |-> 0, sink |-> <<>>, trace |-> <<>>]
            /\ retry = TRUE
            /\ max_retries = 0
            /\ retries = 0
            /\ attempts = <<>>
            /\ history = <<>>
            /\ dl = "idle"

\* The row-processing steps of the two validators in any interleaving.
NextWorkers == OpenFile \/ ReadRow \/ SkipEmptyLine \/ EndOfFile \/ Switch

(***************************************************************************)
(* download_file and the command fetch.  An attempt is one iteration of    *)
(* the loop `while retries <= max_retries`: the content length the server  *)
(* announces (0 when the header is missing), the size of the file written, *)
(* and how the attempt ended.                                              *)
(***************************************************************************)
\* the largest max_retries a caller passes
MaxRetries == 3

\* announced and written sizes, in bytes
Sizes == {0, 2}

\* what the code under download_file leaves alone
cleaning == <<csvfile, fs, dirs, original, prepass_runs, file_to_read,
              name, header, dtypes, input, cap, pc, i, row_count, empty_pk,
              empty_primary_keys, bad_rows, modifications, rows_processed,
              rows_loaded, sink, trace, results, queue, parked>>

\* Nothing is being cleaned and no download has been requested.
InitDownload ==
    /\ csvfile = <<>>
    /\ fs = [q \in {} |-> <<>>]
    /\ dirs = {}
    /\ original = <<>>
    /\ prepass_runs = 0
    /\ file_to_read = <<>>
    /\ name = ""
    /\ header = <<>>
    /\ dtypes = EmptyDict
    /\ input = "none"
    /\ cap = 0
    /\ pc = "none"
    /\ i = 0
    /\ row_count = 0
    /\ empty_pk = 0
    /\ empty_primary_keys = <<>>
    /\ bad_rows = <<>>
    /\ modifications = <<>>
    /\ rows_processed = 0
    /\ rows_loaded = 0
    /\ sink = <<>>
    /\ trace = <<>>
    /\ results = <<>>
    /\ queue = <<>>
    /\ parked = <<>>
    /\ retry = TRUE
    /\ max_retries = 0
    /\ retries = 0
    /\ attempts = <<>>
    /\ history = <<>>
    /\ dl = "idle"

\* The command fetch unpacks the three values check_file_status returns
\* into two names: ValueError, reported as a ClickException, before
\* download_file is called.
Fetch ==
    /\ dl = "idle"
    /\ \E no_retry \in BOOLEAN : dl' = "click_exception"
    /\ UNCHANGED <<retry, max_retries, retries, attempts, history>>
    /\ UNCHANGED cleaning

\* download_file(output_path, metadata, retry, max_retries): retries = 0.
\* The parameter retry is bound and never read.
Call ==
    /\ dl = "idle"
    /\ \E r \in BOOLEAN, m \in 0..MaxRetries :
          /\ retry' = r
          /\ max_retries' = m
    /\ retries' = 0
    /\ dl' = "trying"
    /\ UNCHANGED <<attempts, history>>
    /\ UNCHANGED cleaning

\* `if retries < max_retries: retries += 1 ... else: raise`, after an attempt
\* that ended as att says.
RetryOrRaise(att) ==
    /\ attempts' = Append(attempts, att)
    /\ IF retries < max_retries
       THEN /\ retries' = retries + 1
            /\ dl' = "trying"
       ELSE /\ dl' = "raised"
            /\ UNCHANGED retries
    /\ UNCHANGED <<retry, max_retries, history>>
    /\ UNCHANGED cleaning

\* requests.get, raise_for_status or iter_content raises a RequestException.
AttemptRequestException ==
    /\ dl = "trying"
    /\ retries <= max_retries
    /\ \E total \in Sizes, written \in Sizes :
          RetryOrRaise([total |-> total, written |-> written, ended |-> "RequestException"])

\* The body is written and the size of the file differs from the
\* announced content length.
AttemptIncomplete ==
    /\ dl = "trying"
    /\ retries <= max_retries
    /\ \E total \in Sizes : \E written \in Sizes \ {total} :
          RetryOrRaise([total |-> total, written |-> written, ended |-> "incomplete"])

\* The body is written and the size of the file is the announced content
\* length: record_download_in_history, which returns (recorded) or raises,
\* as does the expression str(output_path).split('/')[1] for a path without
\* a slash.
AttemptComplete ==
    /\ dl = "trying"
    /\ retries <= max_retries
    /\ \E total \in Sizes, recorded \in BOOLEAN :
          /\ attempts' = Append(attempts, [total |-> total, written |-> total,
                                           ended |-> "complete"])
          /\ history' = IF recorded THEN Append(history, "completed") ELSE history
          /\ dl' = IF recorded THEN "returned" ELSE "raised"
    /\ UNCHANGED <<retry, max_retries, retries>>
    /\ UNCHANGED cleaning

\* mkdir, open or write raises an error that is not a RequestException: it
\* leaves download_file at once.
AttemptOtherError ==
    /\ dl = "trying"
    /\ retries <= max_retries
    /\ \E total \in Sizes, written \in {0} :
          /\ attempts' = Append(attempts, [total |-> total, written |-> written,
                                           ended |-> "OSError"])
    /\ dl' = "raised"
    /\ UNCHANGED <<retry, max_retries, retries, history>>
    /\ UNCHANGED cleaning

NextDownload ==
    Fetch \/ Call \/ AttemptRequestException \/ AttemptIncomplete
        \/ AttemptComplete \/ AttemptOtherError

\* One validator reads a file of up to MaxLines lines that is on disk.
InitLive ==
    \E path \in StreamPaths, profile \in StreamProfiles :
        /\ BaseName(path) \in StreamFiles
        /\ OnDisk(path, StreamBytes, FALSE, {DirName(path)})
        /\ Fresh(BaseName(path), profile, "batch", MaxLines)
        /\ Alone

\* The steps of validate_and_process_rows under the loop that consumes it.
NextLive == OpenFile \/ ReadRow \/ SkipEmptyLine \/ EndOfFile

Next == replace_nul \/ OpenFile \/ ReadRow \/ SkipEmptyLine \/ EndOfFile \/ del_no_nul

Spec == Init /\ [][Next]_vars

SpecProbe == InitProbe /\ [][Next]_vars

SpecFiles == InitFiles /\ [][Next]_vars

SpecClean == InitClean /\ [][NextClean]_vars

SpecWorkers == InitWorkers /\ [][NextWorkers]_vars

\* The for loop of copy_csv_to_table drives the generator until it is
\* exhausted, and every step of the loop body returns: the loop never stops
\* while a step is possible.
SpecLive == InitLive /\ [][NextLive]_vars /\ WF_vars(NextLive)

SpecDownload == InitDownload /\ [][NextDownload]_vars

(***************************************************************************)
(* What the properties below speak of.                                     *)
(***************************************************************************)
\* The ledger entries appended while the t-th yielded row was processed.
Entries(t) ==
    SubSeq(modifications, trace[t].ledger_before + 1,
           IF t < Len(trace) THEN trace[t + 1].ledger_before ELSE Len(modifications))

\* How many entries of a sequence of modifications have one of the kinds.
CountKind(mods, kinds) ==
    Cardinality({k \in 1..Len(mods) : mods[k].modification_type \in kinds})

\* The kinds of modification the reconciler makes.
StructuralKinds == {"pad", "truncate", "realign", "flag_long_row", "flag_unexpected_length"}

FlagKinds == {"flag_long_row", "flag_unexpected_length"}

\* The BadRowEntry records of the t-th yielded row.
BadRowsOf(t) == {b \in 1..Len(bad_rows) : bad_rows[b].row_number = trace[t].row_number}

\* A null-like value as the specification defines it: a sentinel token, all
\* whitespace, or filled with one repeated '?' or '0'.
NullLike(v) ==
    \/ v \in { <<>>, <<"b", "6">>, <<"N", "/", "A">>, <<"A", ".", "2", ".", "a">> }
    \/ \A k \in 1..Len(v) : IsSpaceChar(v[k])
    \/ \E c \in {"?", "0"} : Len(v) > 0 /\ \A k \in 1..Len(v) : v[k] = c

\* The row's overflow is the one the file's policy expects.
MatchesPolicy(row) ==
    /\ validation_rules.auto_truncate
    /\ Len(row) = header_length + validation_rules.expected_extra_cols

\* The raw cell under column k of a row (an empty cell where the row is short).
CellAt(row, k) == IF k <= Len(row) THEN row[k] ELSE <<>>

\* The type tag of column k, Absent when the mapping does not name the column.
TypeOf(k) == IF header[k] \in DOMAIN dtypes THEN dtypes[header[k]] ELSE Absent

\* The positions of the convert_to_null entries made for column k.
ConvertsOf(mods, k) ==
    {j \in 1..Len(mods) : /\ mods[j].modification_type = "convert_to_null"
                          /\ mods[j].column_affected = <<header[k]>>}

\* The reasons of the convert_to_null entries made for column k.
ReasonsOf(mods, k) == {mods[j].reason : j \in ConvertsOf(mods, k)}

(***************************************************************************)
(* C1: every record yielded by validate_and_process_rows has exactly W     *)
(* cells, whatever the width of the raw row and the policy of the file.    *)
(* The code yields a flagged over-long row at its full width.              *)
(***************************************************************************)
C1_EveryYieldedRecordHasWidthW ==
    \A t \in 1..Len(trace) : Len(trace[t].yielded) = header_length

\* A row of W + 1 cells of a file without a rule was yielded with W + 1 cells.
C1_Witness ==
    /\ name = "tbl_schedule.csv"
    /\ Len(trace) = 1
    /\ Len(trace[1].row) = header_length + 1
    /\ Len(trace[1].yielded) = header_length + 1

(***************************************************************************)
(* C2: a row whose reconciliation ends in flag_long_row or                 *)
(* flag_unexpected_length is kept in bad_rows with its raw and best-effort *)
(* records, and no line built from a row whose width differs from W is     *)
(* written to the sink.  The code writes the flagged row's line.           *)
(***************************************************************************)
C2_FlaggedRowsKeptButNotLoaded ==
    \A t \in 1..Len(trace) :
        /\ CountKind(Entries(t), FlagKinds) > 0 =>
              \E b \in BadRowsOf(t) :
                  /\ bad_rows[b].original_row = trace[t].row
                  /\ bad_rows[b].corrected_row = trace[t].row
                  /\ CountKind(bad_rows[b].modifications, FlagKinds) > 0
        /\ trace[t].loaded => Len(trace[t].yielded) = header_length

\* The line of a flagged row of W + 1 cells is in the sink.
C2_Witness ==
    /\ Len(trace) = 1
    /\ Len(trace[1].row) = header_length + 1
    /\ CountKind(Entries(1), FlagKinds) = 1
    /\ trace[1].loaded
    /\ sink = << <<"7", "|", "7", "|", "7", "|", "7", "\n">> >>

C4_PrimaryKeyGuard ==
    LET nullKey == {t \in 1..Len(trace) : NullLike(trace[t].row[1])}
    IN  /\ empty_pk = Cardinality(nullKey)
        /\ Len(empty_primary_keys) = empty_pk
        /\ CountKind(modifications, {"empty_primary_key"}) = empty_pk
        /\ Len(trace) = rows_processed
        /\ \A t \in 1..Len(trace) :
              LET n == IF t \in nullKey THEN 1 ELSE 0
              IN  /\ CountKind(Entries(t), {"empty_primary_key"}) = n
                  /\ Cardinality({k \in 1..Len(empty_primary_keys) :
                                    empty_primary_keys[k] = trace[t].row_number}) = n
                  /\ t \in nullKey => \E b \in BadRowsOf(t) : bad_rows[b].has_empty_pk

\* Two rows were yielded, the first with an empty key and the second with a key.
C4_Witness ==
    /\ Len(trace) = 2
    /\ trace[1].row[1] = <<>>
    /\ trace[2].row[1] = <<"7">>
    /\ empty_pk = 1
    /\ DOMAIN dtypes = {}

\* The forms under which the cleaning may hand a raw value on.
Variants(v) ==
    { v, StripValue(v), RemoveChar(v, "|"), RemoveChar(StripValue(v), "|"),
      ReplaceChar(StripValue(v), "O", "0"), RemoveChar(<<"0">> \o StripValue(v), ":") }

\* The end of a line whose last n fields are \N.
NullTail(n) == [j \in 1..(3 * n) |-> <<"|", "\\", "N">>[((j - 1) % 3) + 1]] \o <<"\n">>

\* The last n characters of a line.
LastChars(line, n) == SubSeq(line, Len(line) - n + 1, Len(line))

\* The one pad entry of a row's ledger entries states that n cells were added.
PadStates(mods, n) ==
    /\ CountKind(mods, StructuralKinds) = 1
    /\ \E j \in 1..Len(mods) :
          /\ mods[j].modification_type = "pad"
          /\ mods[j].reason = <<"Padded ", Str(n), " missing columns with empty values">>

(***************************************************************************)
(* C5 as stated: for a row with len < W the yielded record has W cells,    *)
(* its first len cells are the original cells in order (as the type check  *)
(* leaves them), every padded cell of the record is \N and one pad entry   *)
(* states the number of cells added.  In the code a padded cell of a       *)
(* column without a type stays the empty string in the record.             *)
(***************************************************************************)
C5_PaddedCellsAreNullInRecord ==
    \A t \in 1..Len(trace) :
        LET r == trace[t].row
            y == trace[t].yielded
        IN  Len(r) < header_length =>
              /\ Len(y) = header_length
              /\ \A k \in 1..Len(r) : y[k] \in {NullSentinel} \cup Variants(r[k])
              /\ \A k \in (Len(r) + 1)..header_length : y[k] = NullSentinel
              /\ PadStates(Entries(t), header_length - Len(r))

(***************************************************************************)
(* C5 amended: for a row with len < W the yielded record has W cells, its  *)
(* first len cells are the original cells in order (as the type check      *)
(* leaves them), a padded cell is \N in the record when the type mapping   *)
(* names its column and the empty string otherwise, every padded cell is   *)
(* \N in the line copy_csv_to_table builds, and one pad entry states the   *)
(* number of cells added.                                                  *)
(***************************************************************************)
C5_PaddedCellsAreNullInLine ==
    \A t \in 1..Len(trace) :
        LET r == trace[t].row
            y == trace[t].yielded
            n == header_length - Len(r)
        IN  Len(r) < header_length =>
              /\ Len(y) = header_length
              /\ \A k \in 1..Len(r) : y[k] \in {NullSentinel} \cup Variants(r[k])
              /\ \A k \in (Len(r) + 1)..header_length :
                    y[k] = IF header[k] \in DOMAIN dtypes THEN NullSentinel ELSE <<>>
              /\ LastChars(trace[t].line, 3 * n + 1) = NullTail(n)
              /\ PadStates(Entries(t), n)

\* A row of one cell in a file whose mapping names the second column and not
\* the third: the record holds \N and then the empty string, the line \N twice.
C5_Witness ==
    /\ Len(trace) = 1
    /\ trace[1].row = << <<"a", "|", "b">> >>
    /\ TypeOf(1) = LookupTag /\ TypeOf(2) = TextTag /\ TypeOf(3) = Absent
    /\ trace[1].yielded = << <<"a", "b">>, NullSentinel, <<>> >>
    /\ trace[1].loaded
    /\ sink = << <<"a", "b", "|", "\\", "N", "|", "\\", "N", "\n">> >>
    /\ PadStates(modifications, 2)

(***************************************************************************)
(* C6: a row with len = W + expected_extra_cols of a file whose rule sets  *)
(* auto_truncate.  If every trailing cell is null-like the reconciled      *)
(* record is the first W cells and one truncate entry is logged; if a      *)
(* trailing cell is not null-like nothing is removed, one flag_long_row    *)
(* entry is logged and the full-width record is kept in a BadRowEntry.     *)
(***************************************************************************)
C6_ExpectedOverflow ==
    \A t \in 1..Len(trace) :
        LET r == trace[t].row
            e == Entries(t)
        IN  MatchesPolicy(r) =>
              /\ CountKind(e, StructuralKinds) = 1
              /\ \E b \in BadRowsOf(t) :
                    /\ bad_rows[b].original_row = r
                    /\ IF \A k \in (header_length + 1)..Len(r) : NullLike(r[k])
                       THEN /\ CountKind(e, {"truncate"}) = 1
                            /\ bad_rows[b].corrected_row = SubSeq(r, 1, header_length)
                            /\ Len(trace[t].yielded) = header_length
                       ELSE /\ CountKind(e, {"flag_long_row"}) = 1
                            /\ bad_rows[b].corrected_row = r
                            /\ Len(trace[t].yielded) = Len(r)

\* A row of W + 2 cells whose two extra cells are the empty string and the
\* placeholder b6 was truncated to its first W cells.
C6_Witness ==
    /\ name = "tbl_Court_Motions.csv"
    /\ Len(trace) = 1
    /\ trace[1].row = << <<"7">>, <<>>, <<>>, <<>>, <<"b", "6">> >>
    /\ CountKind(modifications, {"truncate"}) = 1
    /\ Len(trace[1].yielded) = header_length
    /\ bad_rows[1].corrected_row = << <<"7">>, <<>>, <<>> >>

(***************************************************************************)
(* C7 as stated: a row with len > W whose overflow does not match the      *)
(* file's rule (auto_truncate is not set, or len # W + expected_extra_cols)*)
(* gets one flag_unexpected_length entry, and no flag_long_row, truncate   *)
(* or pad entry, and is recorded as a BadRowEntry.  In the code a file     *)
(* without auto_truncate gets flag_long_row.                               *)
(***************************************************************************)
C7_MismatchIsUnexpectedLength ==
    \A t \in 1..Len(trace) :
        LET r == trace[t].row
            e == Entries(t)
        IN  (Len(r) > header_length /\ ~MatchesPolicy(r)) =>
              /\ CountKind(e, {"flag_unexpected_length"}) = 1
              /\ CountKind(e, StructuralKinds) = 1
              /\ \E b \in BadRowsOf(t) : bad_rows[b].original_row = r

(***************************************************************************)
(* C7 amended: a row with len > W whose overflow does not match the file's *)
(* rule gets exactly one structural entry, which is flag_long_row when the *)
(* rule does not set auto_truncate and flag_unexpected_length when it does *)
(* and len # W + expected_extra_cols; the row is not truncated and is      *)
(* recorded at full width as a BadRowEntry.                                *)
(***************************************************************************)
C7_MismatchIsFlagged ==
    \A t \in 1..Len(trace) :
        LET r == trace[t].row
            e == Entries(t)
            kind == IF validation_rules.auto_truncate
                    THEN "flag_unexpected_length" ELSE "flag_long_row"
        IN  (Len(r) > header_length /\ ~MatchesPolicy(r)) =>
              /\ CountKind(e, {kind}) = 1
              /\ CountKind(e, StructuralKinds) = 1
              /\ Len(trace[t].yielded) = Len(r)
              /\ \E b \in BadRowsOf(t) :
                    /\ bad_rows[b].original_row = r
                    /\ bad_rows[b].corrected_row = r
                    /\ CountKind(bad_rows[b].modifications, {kind}) = 1

\* Two rows of W + 1 and W + 2 cells of a file without a rule were both
\* flagged flag_long_row.
C7_Witness ==
    /\ name = "tbl_schedule.csv"
    /\ Len(trace) = 2
    /\ Len(trace[1].row) = header_length + 1
    /\ Len(trace[2].row) = header_length + 2
    /\ CountKind(modifications, {"flag_long_row"}) = 2
    /\ CountKind(modifications, {"flag_unexpected_length"}) = 0
    /\ Len(bad_rows) = 2

(***************************************************************************)
(* C8: in a column the type mapping names, whatever its type, a null-like  *)
(* value (a sentinel token, blanks only, or only '?' or only '0') is       *)
(* output as \N, and the null-like test runs before the type check and     *)
(* short-circuits it: the one entry logged for the cell carries the        *)
(* null-like reason, never a type check's.                                 *)
(***************************************************************************)
C8_NullLikeBecomesNull ==
    \A t \in 1..Len(trace) :
        \A k \in 1..header_length :
            LET v == CellAt(trace[t].row, k)
            IN  (header[k] \in DOMAIN dtypes /\ NullLike(v) /\ k <= Len(trace[t].yielded)) =>
                  /\ trace[t].yielded[k] = NullSentinel
                  /\ Cardinality(ConvertsOf(Entries(t), k)) = 1
                  /\ ReasonsOf(Entries(t), k) = { <<"Converted null-like value">> }

\* "00" parses as an integer, and in an integer column it was output as \N
\* for being null-like.
C8_Witness ==
    /\ Len(trace) = 1
    /\ trace[1].row = << <<"7">>, <<"0", "0">>, <<"7">> >>
    /\ TypeOf(2) = IntegerTag
    /\ ParsesAsInt(trace[1].row[2])
    /\ trace[1].yielded[2] = NullSentinel
    /\ ReasonsOf(modifications, 2) = { <<"Converted null-like value">> }

\* The strings the checks of an integer and of a timestamp column accept.
Parses(dtype, s) ==
    IF dtype = IntegerTag THEN ParsesAsInt(ReplaceChar(s, "O", "0")) ELSE IsIsoDateTime(s)

\* The reasons the specification and the code give for a failed check.
FormatReasons(dtype) ==
    IF dtype = IntegerTag
    THEN { <<"invalid integer format">>, <<"Invalid integer format">> }
    ELSE { <<"invalid timestamp format">>, <<"Invalid timestamp format">> }

(***************************************************************************)
(* C9 as stated: in an integer or timestamp column a value that is not     *)
(* null-like and parses (for an integer, after O is replaced by 0) is      *)
(* output as itself (for an integer, substituted) with no convert_to_null  *)
(* entry; one that does not parse is output as \N with exactly one         *)
(* convert_to_null entry whose reason is the invalid-format reason of its  *)
(* type.  The statement is read generously: blanks around the value may be *)
(* removed and the reason may be capitalised.  The code tests the stripped *)
(* value for null-likeness and logs nothing for a raw value \N.            *)
(***************************************************************************)
C9_ParsedOrNulledWithReason ==
    \A t \in 1..Len(trace) :
        \A k \in 1..header_length :
            LET v == CellAt(trace[t].row, k)
                out == trace[t].yielded[k]
                dtype == TypeOf(k)
            IN  (k <= Len(trace[t].row) /\ dtype \in {IntegerTag, TimestampTag}
                    /\ ~NullLike(v)) =>
                  IF Parses(dtype, v)
                  THEN /\ out \in Variants(v)
                       /\ ConvertsOf(Entries(t), k) = {}
                  ELSE /\ out = NullSentinel
                       /\ Cardinality(ConvertsOf(Entries(t), k)) = 1
                       /\ ReasonsOf(Entries(t), k) \subseteq FormatReasons(dtype)

(***************************************************************************)
(* C9 amended: in an integer or timestamp column, take a value whose       *)
(* stripped form (surrounding backslashes, then surrounding blanks,        *)
(* removed) is not null-like.  If the stripped form parses (for an         *)
(* integer, after O is replaced by 0) the output is the stripped form (for *)
(* an integer, substituted) and no convert_to_null entry is logged.  If it *)
(* does not, the output is \N and exactly one convert_to_null entry is     *)
(* logged, with reason "Invalid integer format" or "Invalid timestamp      *)
(* format", unless the raw value is \N itself, for which none is logged.   *)
(***************************************************************************)
C9_StrippedParsedOrNulled ==
    \A t \in 1..Len(trace) :
        \A k \in 1..header_length :
            LET v == CellAt(trace[t].row, k)
                sv == StripValue(v)
                out == trace[t].yielded[k]
                dtype == TypeOf(k)
                reason == IF dtype = IntegerTag THEN <<"Invalid integer format">>
                                                ELSE <<"Invalid timestamp format">>
            IN  (k <= Len(trace[t].row) /\ dtype \in {IntegerTag, TimestampTag}
                    /\ ~NullLike(sv)) =>
                  IF Parses(dtype, sv)
                  THEN /\ out = IF dtype = IntegerTag THEN ReplaceChar(sv, "O", "0") ELSE sv
                       /\ ConvertsOf(Entries(t), k) = {}
                  ELSE /\ out = NullSentinel
                       /\ IF v = NullSentinel
                          THEN ConvertsOf(Entries(t), k) = {}
                          ELSE /\ Cardinality(ConvertsOf(Entries(t), k)) = 1
                               /\ ReasonsOf(Entries(t), k) = {reason}

\* "O42" in an integer column was output as "042" and nothing was logged.
C9_Witness ==
    /\ Len(trace) = 1
    /\ trace[1].row = << <<"7">>, <<"O", "4", "2">>, <<"7">> >>
    /\ TypeOf(2) = IntegerTag /\ TypeOf(3) = TimestampTag
    /\ trace[1].yielded[2] = <<"0", "4", "2">>
    /\ ConvertsOf(modifications, 2) = {}
    /\ trace[1].yielded[3] = NullSentinel
    /\ ReasonsOf(modifications, 3) = { <<"Invalid timestamp format">> }

\* A time of day written HHMM, HH:MM or H:MM.
ValidTime(s) ==
    \/ Len(s) = 4 /\ AllDigits(s) /\ NumVal(SubSeq(s, 1, 2)) < 24 /\ NumVal(SubSeq(s, 3, 4)) < 60
    \/ /\ Len(s) = 5 /\ s[3] = ":" /\ AllDigits(SubSeq(s, 1, 2)) /\ AllDigits(SubSeq(s, 4, 5))
       /\ NumVal(SubSeq(s, 1, 2)) < 24 /\ NumVal(SubSeq(s, 4, 5)) < 60
    \/ /\ Len(s) = 4 /\ s[2] = ":" /\ IsDigit(s[1]) /\ AllDigits(SubSeq(s, 3, 4))
       /\ NumVal(SubSeq(s, 3, 4)) < 60

(***************************************************************************)
(* C10: in a time column a value is replaced by \N exactly when it does    *)
(* not denote a valid time after normalisation; a valid time, one written  *)
(* HH:MM included, is not nulled.  The code inserts a colon after the      *)
(* second character of every value, so HH:MM becomes HH::MM and is nulled. *)
(***************************************************************************)
C10_TimeNulledExactlyWhenInvalid ==
    \A t \in 1..Len(trace) :
        \A k \in 1..header_length :
            LET v == CellAt(trace[t].row, k)
            IN  (k <= Len(trace[t].row) /\ TypeOf(k) = TimeTag
                    /\ ~NullLike(StripValue(v)) /\ v # NullSentinel) =>
                  (trace[t].yielded[k] = NullSentinel <=> ~ValidTime(StripValue(v)))

\* "09:30" in a time column was output as \N for an invalid time format.
C10_Witness ==
    /\ Len(trace) = 1
    /\ trace[1].row = << <<"7">>, <<"0", "9", ":", "3", "0">>, <<"7">> >>
    /\ TypeOf(2) = TimeTag
    /\ trace[1].yielded[2] = NullSentinel
    /\ ReasonsOf(modifications, 2) = { <<"Invalid time format">> }

\* A cell that is not null-like and is well-formed for the type of column k:
\* digits for an integer, an ISO date-time for a timestamp, a time of day for
\* a time, a match for a pattern, and any text elsewhere.
WellFormed(k, v) ==
    /\ ~NullLike(v)
    /\ TypeOf(k) = IntegerTag => AllDigits(v)
    /\ TypeOf(k) = TimestampTag => IsIsoDateTime(v)
    /\ TypeOf(k) = TimeTag => ValidTime(v)
    /\ IsRegexTag(TypeOf(k)) => RegexMatch(TypeOf(k), v)

\* A column that holds free text: no type, a text type or a lookup reference.
FreeText(k) == TypeOf(k) \in {Absent, TextTag, LookupTag}

(***************************************************************************)
(* C11: round trip.  A row of W cells that are all well-formed for their   *)
(* types and not null-like is yielded cell for cell as it was read, but    *)
(* for the pipes removed from free-text cells; it adds no entry to the     *)
(* ledger and none to bad_rows.  In the code a time written HH:MM is       *)
(* nulled, logged and flagged, and a typed free-text cell loses the blanks *)
(* and backslashes around it.                                              *)
(***************************************************************************)
C11_RoundTrip ==
    \A t \in 1..Len(trace) :
        LET r == trace[t].row
        IN  (Len(r) = header_length /\ \A k \in 1..header_length : WellFormed(k, r[k])) =>
              /\ \A k \in 1..header_length :
                    trace[t].yielded[k] = IF FreeText(k) THEN RemoveChar(r[k], "|") ELSE r[k]
              /\ Entries(t) = <<>>
              /\ BadRowsOf(t) = {}

\* The well-formed row 7, 09:30, 7 of an integer, a time and a text column
\* was yielded with \N for the time, logged and entered in bad_rows.
C11_Witness ==
    /\ Len(trace) = 1
    /\ trace[1].row = << <<"7">>, <<"0", "9", ":", "3", "0">>, <<"7">> >>
    /\ TypeOf(1) = IntegerTag /\ TypeOf(2) = TimeTag /\ TypeOf(3) = TextTag
    /\ \A k \in 1..3 : WellFormed(k, trace[1].row[k])
    /\ trace[1].yielded = << <<"7">>, NullSentinel, <<"7">> >>
    /\ Len(modifications) = 1
    /\ Len(bad_rows) = 1
    /\ bad_rows[1].bad_values =
          << [col |-> 1, value |-> <<"0", "9", ":", "3", "0">>,
              reason |-> <<"Invalid time format">>] >>

\* The columns of the header that the file's rules exempt from validation.
ExemptCols == {k \in 1..header_length : header[k] \in validation_rules.skip_validation_cols}

\* The type violations recorded for column k in the bad_rows entries of row t.
BadValuesOf(t, k) ==
    {v \in UNION { {bad_rows[b].bad_values[j] : j \in 1..Len(bad_rows[b].bad_values)} :
                     b \in BadRowsOf(t) } : v.col = k - 1}

\* The cells of row t that lie under the header.
CellsOf(t) == 1..(IF Len(trace[t].row) < header_length THEN Len(trace[t].row) ELSE header_length)

(***************************************************************************)
(* C12: a cell of an exempt column skips the null-like test and every type *)
(* check in the detection pass and in the repair pass: it is yielded as it *)
(* was read but for the pipes, it is never replaced by \N, it never gets a *)
(* convert_to_null entry and never a type violation.  In the code only the *)
(* detection pass looks at skip_validation_cols.                           *)
(***************************************************************************)
C12_ExemptCellsPassThrough ==
    \A t \in 1..Len(trace) : \A k \in CellsOf(t) \cap ExemptCols :
        /\ trace[t].yielded[k] = RemoveChar(trace[t].row[k], "|")
        /\ ConvertsOf(Entries(t), k) = {}
        /\ BadValuesOf(t, k) = {}

(***************************************************************************)
(* C12, as the code has it: a cell of an exempt column never gets a type   *)
(* violation in bad_values, but the repair pass treats it as any cell of   *)
(* its column's type.  Under an untyped column it is yielded as read but   *)
(* for the pipes, with no ledger entry; under a typed column a value that  *)
(* is null-like once stripped is yielded as \N, and every cell replaced by *)
(* \N has exactly one convert_to_null entry.                               *)
(***************************************************************************)
C12_ExemptFromDetectionOnly ==
    \A t \in 1..Len(trace) : \A k \in CellsOf(t) \cap ExemptCols :
        LET raw == trace[t].row[k]
            out == trace[t].yielded[k]
            converts == ConvertsOf(Entries(t), k)
        IN  /\ BadValuesOf(t, k) = {}
            /\ TypeOf(k) = Absent => out = RemoveChar(raw, "|") /\ converts = {}
            /\ TypeOf(k) # Absent /\ NullLike(StripValue(raw)) => out = NullSentinel
            /\ TypeOf(k) # Absent /\ out = NullSentinel /\ raw # NullSentinel =>
                  Cardinality(converts) = 1
            /\ out # NullSentinel => converts = {}

\* The cell abc under the exempt integer column REJ was replaced by \N and
\* logged, and the row has no entry in bad_rows.
C12_Witness ==
    /\ Len(trace) = 1
    /\ name = "tbl_Court_Motions.csv"
    /\ 2 \in ExemptCols /\ TypeOf(2) = IntegerTag
    /\ trace[1].row = << <<"7">>, <<"a", "b", "c">>, <<>> >>
    /\ trace[1].yielded[2] = NullSentinel
    /\ ReasonsOf(Entries(1), 2) = {<<"Invalid integer format">>}
    /\ bad_rows = <<>>

(***************************************************************************)
(* C13: in a file whose rules set high_nul_tolerance, a null-like value in *)
(* any column is written as \N and accepted silently: no type violation in *)
(* bad_values and no ledger entry for the cell.  The code logs one         *)
(* convert_to_null entry for every null-like cell of a typed column.       *)
(***************************************************************************)
C13_NullLikeAcceptedSilently ==
    validation_rules.high_nul_tolerance =>
        \A t \in 1..Len(trace) : \A k \in CellsOf(t) :
            NullLike(trace[t].row[k]) =>
                /\ FormatCell(trace[t].yielded[k]) = NullSentinel
                /\ BadValuesOf(t, k) = {}
                /\ ConvertsOf(Entries(t), k) = {}

(***************************************************************************)
(* C13, as the code has it: in a file whose rules set high_nul_tolerance,  *)
(* a null-like value in any column is written to the sink as \N and gets   *)
(* no type violation in bad_values; under a typed column the ledger gets   *)
(* exactly one convert_to_null entry for it, with the reason "Converted    *)
(* null-like value", and under an untyped column none.                     *)
(***************************************************************************)
C13_NullLikeNulledAndLogged ==
    validation_rules.high_nul_tolerance =>
        \A t \in 1..Len(trace) : \A k \in CellsOf(t) :
            NullLike(trace[t].row[k]) =>
                /\ FormatCell(trace[t].yielded[k]) = NullSentinel
                /\ BadValuesOf(t, k) = {}
                /\ TypeOf(k) = Absent => ConvertsOf(Entries(t), k) = {}
                /\ TypeOf(k) # Absent =>
                      /\ trace[t].yielded[k] = NullSentinel
                      /\ Cardinality(ConvertsOf(Entries(t), k)) = 1
                      /\ ReasonsOf(Entries(t), k) = {<<"Converted null-like value">>}

\* In tblProBono.csv the cell N/A under the text column Charge_1 was yielded
\* as \N with one ledger entry, and the row has no entry in bad_rows.
C13_Witness ==
    /\ Len(trace) = 1
    /\ name = "tblProBono.csv"
    /\ validation_rules.high_nul_tolerance
    /\ TypeOf(3) = TextTag
    /\ Len(trace[1].row) = 3
    /\ trace[1].row[3] = <<"N", "/", "A">>
    /\ trace[1].yielded[3] = NullSentinel
    /\ Cardinality(ConvertsOf(Entries(1), 3)) = 1
    /\ BadRowsOf(1) = {}

\* The columns of the header whose type is a pattern, and those whose type
\* is a reference to a lookup table.
RegexCols == {k \in 1..header_length : IsRegexTag(TypeOf(k))}
LookupCols == {k \in 1..header_length : IsLookupTag(TypeOf(k))}

Fields(line) == Len(SelectSeq(line, LAMBDA c : c = "|")) + 1

(***************************************************************************)
(* C16: no cell of a line handed to the sink contains a pipe, for every    *)
(* row read, over-long flagged rows and cells of typed columns included,   *)
(* so that the line splits on the pipe into exactly the cells yielded.     *)
(* In a file with a type mapping the code leaves the cells beyond the      *)
(* header untouched, pipes included.                                       *)
(***************************************************************************)
C16_NoPipeInsideACell ==
    \A t \in 1..Len(trace) :
        /\ \A k \in 1..Len(trace[t].yielded) : ~Contains(FormatCell(trace[t].yielded[k]), "|")
        /\ Fields(trace[t].line) = Len(trace[t].yielded)

\* In a file with a type mapping, a row of four cells whose last cell is a|b
\* was flagged as too long, yielded with that cell unchanged, and loaded as
\* a line of five fields.
C16_Witness ==
    /\ Len(trace) = 1
    /\ DOMAIN dtypes # {}
    /\ header_length = 3
    /\ Len(trace[1].row) = 4
    /\ trace[1].row[4] = <<"a", "|", "b">>
    /\ trace[1].yielded[4] = <<"a", "|", "b">>
    /\ CountKind(Entries(1), FlagKinds) = 1
    /\ trace[1].loaded
    /\ Fields(sink[1]) = 5

(***************************************************************************)
(* C17: the source file is never mutated.  Whatever the source path, also  *)
(* one without ".csv" or with ".csv" more than once, replace_nul,          *)
(* del_no_nul and validate_and_process_rows leave the bytes of the source  *)
(* as they were and never delete it, and the artifact of the pre-pass is   *)
(* a distinct file in the directory of the source.  In the code the path   *)
(* of the artifact is the source path when that holds no ".csv".           *)
(***************************************************************************)
C17_SourceNeverMutated ==
    /\ csvfile \in DOMAIN fs
    /\ fs[csvfile] = original
    /\ prepass_runs > 0 /\ no_nul \in DOMAIN fs =>
          /\ no_nul # csvfile
          /\ DirName(no_nul) = DirName(csvfile)

\* The source /data/tbl_schedule.txt held NUL bytes; the pre-pass ran, the
\* rows were read, and del_no_nul removed the source itself.
C17_Witness ==
    /\ csvfile = <<"/data", "/", "tbl_schedule", ".txt">>
    /\ Contains(original, NulByte)
    /\ prepass_runs = 1
    /\ pc = "done"
    /\ file_to_read = csvfile
    /\ csvfile \notin DOMAIN fs

\* The bytes of a file that are not NUL, in their order.
WithoutNul(data) == SelectSeq(data, LAMBDA b : b # NulByte)

(***************************************************************************)
(* C18: the pre-pass is idempotent.  After replace_nul has run once or     *)
(* more, the artifact holds the bytes of the source with every NUL         *)
(* removed, and a further run leaves the artifact byte for byte as it was. *)
(***************************************************************************)
C18_PrepassIdempotent ==
    /\ [](/\ prepass_runs > 0 /\ pc \in {"start", "rows"} => no_nul \in DOMAIN fs
          /\ prepass_runs > 0 /\ pc # "failed" /\ no_nul \in DOMAIN fs =>
                fs[no_nul] = WithoutNul(original))
    /\ [][prepass_runs > 0 /\ prepass_runs' = prepass_runs + 1 /\ pc' # "failed" =>
            fs'[no_nul] = fs[no_nul]]_vars

\* replace_nul ran twice on a source with two NUL bytes beside a stale
\* artifact: the artifact is the source without them, the source as it was.
C18_Witness ==
    /\ prepass_runs = 2
    /\ original = <<"a", NulByte, "b", NulByte>>
    /\ no_nul # csvfile
    /\ fs[csvfile] = original
    /\ no_nul \in DOMAIN fs
    /\ fs[no_nul] = <<"a", "b">>

(***************************************************************************)
(* C19: when validate_and_process_rows starts and the artifact of the      *)
(* pre-pass does not exist, it reads the original file and goes on to the  *)
(* rows without failing; when the artifact exists, the artifact is the     *)
(* file it reads.                                                          *)
(***************************************************************************)
C19_FallsBackToTheOriginal ==
    [][pc = "start" /\ file_to_read' # file_to_read =>
          /\ no_nul \notin DOMAIN fs => file_to_read' = csvfile /\ pc' = "rows"
          /\ no_nul \in DOMAIN fs => file_to_read' = no_nul /\ pc' = "rows"]_vars

\* No pre-pass ran and no artifact exists: the original was opened and a row
\* of it was read.
C19_Witness ==
    /\ prepass_runs = 0
    /\ no_nul # csvfile
    /\ no_nul \notin DOMAIN fs
    /\ file_to_read = csvfile
    /\ pc = "rows"
    /\ Len(trace) = 1

\* The kinds of the entries the ledger holds for row number n.
KindsOfRow(n) ==
    {modifications[j].modification_type :
        j \in {q \in 1..Len(modifications) : modifications[q].row_number = n}}

(***************************************************************************)
(* C20: the ledger is append-only and in the order of the rows.  No step   *)
(* removes or rewrites an entry, and the row numbers of the entries never  *)
(* decrease along the ledger, the entries that the primary key guard, the  *)
(* reconciler and the value validator make for one row included.           *)
(***************************************************************************)
C20_LedgerAppendOnlyInRowOrder ==
    /\ [](\A j \in 1..(Len(modifications) - 1) :
              modifications[j].row_number <= modifications[j + 1].row_number)
    /\ [][/\ Len(modifications') >= Len(modifications)
          /\ SubSeq(modifications', 1, Len(modifications)) = modifications]_vars

\* Two rows were read; the ledger holds entries of the first, and for the
\* second an entry of the primary key guard, one of the reconciler and one
\* of the value validator.
C20_Witness ==
    /\ Len(trace) = 2
    /\ KindsOfRow(trace[1].row_number) # {}
    /\ {"empty_primary_key", "pad", "convert_to_null"} \subseteq KindsOfRow(trace[2].row_number)
    /\ trace[1].row_number < trace[2].row_number

\* Every kind of modification.
AllKinds == StructuralKinds \cup {"empty_primary_key", "convert_to_null"}

\* The result of the file that has just been processed.
LastResult == results[Len(results)]

\* The count a summary gives for a kind, 0 when it does not name the kind.
SummaryOf(summary, k) == IF k \in DOMAIN summary THEN summary[k] ELSE 0

(***************************************************************************)
(* C21: at the end of a run the quality report aggregates the ledger by    *)
(* kind: for every kind, modifications_summary gives the number of ledger  *)
(* entries of that kind, also in a run whose only ledger entries are       *)
(* convert_to_null.  The code returns an empty summary whenever bad_rows   *)
(* is empty, whatever the ledger holds.                                    *)
(***************************************************************************)
C21_SummaryCountsTheLedger ==
    (pc = "returned" /\ LastResult.success) =>
        \A k \in AllKinds :
            SummaryOf(LastResult.quality_report.modifications_summary, k)
                = CountKind(modifications, {k})

\* A file was processed whose ledger holds convert_to_null entries only: no
\* row is in bad_rows and the summary of the report is empty.
C21_Witness ==
    /\ pc = "returned"
    /\ LastResult.success
    /\ Len(modifications) > 0
    /\ CountKind(modifications, {"convert_to_null"}) = Len(modifications)
    /\ bad_rows = <<>>
    /\ LastResult.total_modifications = Len(modifications)
    /\ LastResult.quality_report.modifications_summary = EmptyDict

\* The rows read whose ledger entries include one of the reconciler, those
\* with a type violation in bad_rows and those with an empty primary key.
StructuralRows == {t \in 1..Len(trace) : CountKind(Entries(t), StructuralKinds) > 0}
ValueRows == {t \in 1..Len(trace) : \E b \in BadRowsOf(t) : bad_rows[b].bad_values # <<>>}
MissingKeyRows == {t \in 1..Len(trace) : CountKind(Entries(t), {"empty_primary_key"}) > 0}

(***************************************************************************)
(* C22: the quality report counts the rows with structural issues and the  *)
(* rows with value issues, with a recommendation for a category whenever   *)
(* its count is not zero; the total of rows with a missing primary key is  *)
(* reported; a row whose only issue is an empty primary key is not counted *)
(* as structural; and the structural and value counts copy_csv_to_table    *)
(* returns are those of the report.  In the code a row with an empty key   *)
(* counts as structural, and copy_csv_to_table leaves the rows that have   *)
(* both kinds of issue out of its structural count.                        *)
(***************************************************************************)
C22_ReportCategories ==
    (pc = "returned" /\ LastResult.success) =>
        LET report == LastResult.quality_report
        IN  /\ report.structural_issues <= Cardinality(StructuralRows)
            /\ report.data_quality_issues = Cardinality(ValueRows)
            /\ LastResult.empty_primary_keys = Cardinality(MissingKeyRows)
            /\ Len(report.recommendations) =
                  (IF report.structural_issues > 0 THEN 1 ELSE 0)
                  + (IF report.data_quality_issues > 0 THEN 1 ELSE 0)
            /\ LastResult.structural_issues = report.structural_issues
            /\ LastResult.data_quality_issues = report.data_quality_issues

\* One row was read that is too long and holds a value of the wrong type:
\* the report counts one row with structural issues, copy_csv_to_table none.
C22_Witness ==
    /\ pc = "returned"
    /\ LastResult.success
    /\ Len(trace) = 1
    /\ StructuralRows = {1}
    /\ ValueRows = {1}
    /\ LastResult.quality_report.structural_issues = 1
    /\ LastResult.structural_issues = 0
    /\ LastResult.data_quality_issues = 1

\* The row the reconciler is to hand on: a short row with empty cells added
\* up to the width of the header, a row with the overflow the file's policy
\* expects and nothing but null-like cells in it cut to that width, and any
\* other row as it is.
Reconciled(row) ==
    IF Len(row) < header_length
    THEN row \o [k \in 1..(header_length - Len(row)) |-> <<>>]
    ELSE IF MatchesPolicy(row) /\ \A k \in (header_length + 1)..Len(row) : NullLike(row[k])
    THEN SubSeq(row, 1, header_length)
    ELSE row

\* The kinds of entry the reconciler may log for a row.
ReconcilerKinds(row) ==
    IF Len(row) = header_length THEN {}
    ELSE IF Len(row) < header_length THEN {"pad"}
    ELSE IF Len(Reconciled(row)) = header_length THEN {"truncate"}
    ELSE FlagKinds

C24_NoHeaderNoOutput ==
    header = <<>> =>
        /\ trace = <<>>
        /\ sink = <<>>
        /\ pc # "done"
        /\ pc = "returned" => ~LastResult.success

\* The first line of the first file was empty: the validator was built with
\* no column, a row of one cell was flagged as too long, yielded and loaded,
\* and the result says success.
C24_Witness ==
    /\ name = "tbl_Court_Motions.csv"
    /\ header = <<>>
    /\ pc = "returned"
    /\ Len(trace) = 1
    /\ trace[1].row = << <<"7">> >>
    /\ CountKind(Entries(1), FlagKinds) = 1
    /\ sink = << <<"7", "\n">> >>
    /\ LastResult.success
    /\ LastResult.rows_loaded = 1

(***************************************************************************)
(* C25: a write to the sink that fails for one row does not end the        *)
(* stream.  After any sequence of writes that succeed or fail the rows     *)
(* that remain are still processed: rows_loaded is the number of writes    *)
(* that succeeded, rows_processed the number of rows yielded, and          *)
(* rows_loaded <= rows_processed.                                          *)
(***************************************************************************)
C25_FailedWriteIsSkipped ==
    /\ [](/\ rows_processed = Len(trace)
          /\ rows_loaded = Cardinality({t \in 1..Len(trace) : trace[t].loaded})
          /\ rows_loaded = Len(sink)
          /\ rows_loaded <= rows_processed)
    /\ [][Len(trace') > Len(trace) =>
            /\ pc' = pc
            /\ i' = i + 1
            /\ rows_processed' = rows_processed + 1
            /\ sink' = IF trace'[Len(trace')].loaded
                       THEN Append(sink, trace'[Len(trace')].line) ELSE sink]_vars

\* The write of the first row failed and the write of the second succeeded.
C25_Witness ==
    /\ Len(trace) = 2
    /\ ~trace[1].loaded
    /\ trace[2].loaded
    /\ rows_processed = 2
    /\ rows_loaded = 1
    /\ sink = <<trace[2].line>>

\* What one row adds to the ledger of a validator that runs alone.
AloneRowLedger(row, n) ==
    LET pk_issue == validate_primary_key(row, n)
        corrected == correct_row_length(row, n)
        bad_values == detect_data_quality_issues(corrected.row)
        tracked == bad_values # <<>> \/ corrected.mods # <<>> \/ pk_issue # <<>>
    IN  pk_issue \o (IF tracked THEN corrected.mods ELSE <<>>)
                 \o clean_row(corrected.row, n).mods

\* The rows a validator that runs alone tracks for one row: none or one.
AloneRowBad(row, n) ==
    LET pk_issue == validate_primary_key(row, n)
        corrected == correct_row_length(row, n)
        bad_values == detect_data_quality_issues(corrected.row)
    IN  IF bad_values # <<>> \/ corrected.mods # <<>> \/ pk_issue # <<>>
        THEN << [row_number |-> n, original_row |-> row,
                 corrected_row |-> corrected.row, bad_values |-> bad_values,
                 modifications |-> corrected.mods \o pk_issue,
                 has_empty_pk |-> pk_issue # <<>>] >>
        ELSE <<>>

RECURSIVE AloneLedger(_)
\* The ledger of a validator that reads the first t rows of trace alone.
AloneLedger(t) ==
    IF t = 0 THEN <<>>
    ELSE AloneLedger(t - 1) \o AloneRowLedger(trace[t].row, trace[t].row_number)

RECURSIVE AloneBadRows(_)
\* The bad_rows of a validator that reads the first t rows of trace alone.
AloneBadRows(t) ==
    IF t = 0 THEN <<>>
    ELSE AloneBadRows(t - 1) \o AloneRowBad(trace[t].row, trace[t].row_number)

\* The record a validator that runs alone emits for a row.
AloneEmitted(row, n) == clean_row(correct_row_length(row, n).row, n).row

C27_EveryRowOnceInOrderToTheEnd ==
    /\ [](/\ pc # "failed"
          /\ rows_processed = Len(trace)
          /\ \A t \in 1..Len(trace) :
                /\ trace[t].row_number <= i
                /\ t > 1 => trace[t - 1].row_number < trace[t].row_number
                /\ trace[t].yielded = AloneEmitted(trace[t].row, trace[t].row_number))
    /\ [][/\ i' \in {i, i + 1}
          /\ trace' # trace =>
                /\ i' = i + 1
                /\ Len(trace') = Len(trace) + 1
                /\ SubSeq(trace', 1, Len(trace)) = trace
                /\ trace'[Len(trace')].row_number = i']_vars
    /\ <>(pc = "done" /\ row_count = i)

\* The end of a file of two records, the first too long and with a cell that
\* violates its type, both processed.
C27_Witness ==
    /\ pc = "done"
    /\ Len(trace) = 2
    /\ trace[1].row_number = 1
    /\ trace[2].row_number = 2
    /\ bad_rows # <<>>
    /\ bad_rows[1].row_number = 1
    /\ bad_rows[1].bad_values # <<>>
    /\ Len(bad_rows[1].original_row) > Len(header)

(***************************************************************************)
(* C28: in the per-file cleaning flow the null-stripping pre-pass runs     *)
(* once and completes before the reconciler reads the first row: whenever  *)
(* the reader is open or a row has been processed, the pre-pass has run    *)
(* exactly once for the file, its artifact is on disk, and the rows are    *)
(* read from the artifact and not from the source file.                    *)
(***************************************************************************)
C28_PrepassBeforeFirstRow ==
    (pc = "rows" \/ Len(trace) > 0) =>
        /\ prepass_runs = 1
        /\ no_nul \in DOMAIN fs
        /\ file_to_read = no_nul

\* A row has been processed from a source file that holds a NUL byte and
\* has never been through the pre-pass.
C28_Witness ==
    /\ Len(trace) > 0
    /\ prepass_runs = 0
    /\ no_nul \notin DOMAIN fs
    /\ file_to_read = csvfile
    /\ \E b \in 1..Len(fs[csvfile]) : fs[csvfile][b] = NulByte

\* A row without its cell at position p.
Without(row, p) == SubSeq(row, 1, p - 1) \o SubSeq(row, p + 1, Len(row))

\* The positions before column col of a row whose cell is null-like and whose
\* removal leaves a row as wide as the header with no type violation.
ShiftFixes(row, col) ==
    {p \in 1..(col - 1) : /\ NullLike(row[p])
                          /\ Len(Without(row, p)) = header_length
                          /\ detect_data_quality_issues(Without(row, p)) = <<>>}

\* The position the backward scan from column col reaches first.
FirstShiftFix(row, col) ==
    CHOOSE p \in ShiftFixes(row, col) : \A q \in ShiftFixes(row, col) : q <= p

\* The rows read that are still too long after reconciling, have exactly one
\* type violation, and can be repaired by removing one null-like cell
\* before the flagged column.
Shiftable ==
    {t \in 1..Len(trace) :
        LET kept == correct_row_length(trace[t].row, trace[t].row_number).row
            bad == detect_data_quality_issues(kept)
        IN  /\ Len(kept) > header_length
            /\ Len(bad) = 1
            /\ ShiftFixes(kept, bad[1].col + 1) # {}}

(***************************************************************************)
(* C29: the single-column-shift fallback.  When exactly one type violation *)
(* is flagged in an over-long row, the reconciler scans backward from the  *)
(* flagged column and removes the first null-like cell whose removal gives *)
(* a row as wide as the header with no type violation; the row emitted is  *)
(* that row, one cell shorter than the input, which is left as it was      *)
(* read.                                                                   *)
(***************************************************************************)
C29_SingleColumnShift ==
    \A t \in Shiftable :
        LET row == trace[t].row
            bad == detect_data_quality_issues(row)
            shifted == Without(row, FirstShiftFix(row, bad[1].col + 1))
        IN  /\ trace[t].yielded = clean_row(shifted, trace[t].row_number).row
            /\ Len(trace[t].yielded) = header_length
            /\ Len(trace[t].row) = header_length + 1

\* The row 7, empty, 7, empty of tbl_schedule.csv under the mapping integer,
\* integer, timestamp: the 7 under the timestamp column is the one violation
\* and removing the empty second cell repairs the row, yet the row is
\* emitted with its four cells and stays flagged.
C29_Witness ==
    /\ name = "tbl_schedule.csv"
    /\ Shiftable = {1}
    /\ trace[1].row = << <<"7">>, <<>>, <<"7">>, <<>> >>
    /\ Len(trace[1].yielded) = header_length + 1
    /\ Len(bad_rows) = 1
    /\ Len(bad_rows[1].bad_values) = 1
    /\ bad_rows[1].bad_values[1].col = 2
    /\ \E j \in 1..Len(modifications) :
          modifications[j].modification_type = "flag_long_row"

\* The attempts that ended with the whole announced body on disk.
CompleteAttempts ==
    {a \in 1..Len(attempts) : /\ attempts[a].ended = "complete"
                              /\ attempts[a].written = attempts[a].total}

(***************************************************************************)
(* C30: download_file makes a bounded number of attempts: at most one when *)
(* retry is disabled and at most max_retries + 1 otherwise.  It records a  *)
(* completed download in the history at most once, only after an attempt   *)
(* whose written size equals the announced content length, which is then   *)
(* the last attempt; and it raises when every attempt has failed.          *)
(***************************************************************************)
C30_BoundedAttempts ==
    /\ ~retry => Len(attempts) <= 1
    /\ Len(attempts) <= max_retries + 1
    /\ Len(history) <= 1
    /\ history # <<>> => CompleteAttempts = {Len(attempts)}
    /\ dl = "returned" => Len(history) = 1
    /\ (dl = "trying" /\ retries > max_retries) => FALSE
    /\ (dl \in {"returned", "raised"} /\ CompleteAttempts = {}) => dl = "raised"

\* download_file was called with retry disabled and max_retries = 3, made
\* four attempts that all failed, and raised.
C30_Witness ==
    /\ ~retry
    /\ max_retries = 3
    /\ Len(attempts) = 4
    /\ CompleteAttempts = {}
    /\ history = <<>>
    /\ dl = "raised"

====
